---- MODULE Spec2Model ----
(***************************************************************************)
(* Feed-reconciliation pipeline of the eBay reseller manager:              *)
(*   src/src/database.py              (Database, the *_v2 tables)          *)
(*   src/src/importers/*.py           (CSV importers)                      *)
(*   src/src/migrations/min_inventory_orders.py  (schema)                  *)
(*                                                                         *)
(* Values.  A Python str is a sequence of one-character strings, so that   *)
(* str.strip() and the parsers are computed, not assumed.  Python None is  *)
(* the value None below; a parsed number n is Num(n).  A dict is a         *)
(* function whose DOMAIN is the set of keys it holds.  A table is the      *)
(* sequence of its rows in rowid order.                                    *)
(***************************************************************************)
EXTENDS Integers, Sequences, FiniteSets, TLC

VARIABLES inventory_items, sales_orders, sales_order_items, shipments,
          edit_log, lastOp

vars == <<inventory_items, sales_orders, sales_order_items, shipments,
          edit_log, lastOp>>

(***************************************************************************)
(* Bounds of the exploration.                                              *)
(***************************************************************************)
MaxLog == 2

(***************************************************************************)
(* Python values.                                                          *)
(***************************************************************************)
None == <<"None">>

Num(n) == <<"num", n>>

\* isinstance(v, str)
IsStr(v) == v # None /\ (v = <<>> \/ v[1] # "num")

\* dict.get(key) and dict.get(key, default)
Get(d, k) == IF k \in DOMAIN d THEN d[k] ELSE None

GetDefault(d, k, default) == IF k \in DOMAIN d THEN d[k] ELSE default

Truthy_NoneOnly(v) == v # None

\* Python truthiness of an optional string or number
Truthy(v) == v # None /\ v # <<>> /\ v # Num(0)

RECURSIVE LStrip(_)
LStrip(s) == IF s = <<>> THEN s
             ELSE IF Head(s) = " " THEN LStrip(Tail(s)) ELSE s

RECURSIVE RStrip(_)
RStrip(s) == IF s = <<>> THEN s
             ELSE IF s[Len(s)] = " " THEN RStrip(SubSeq(s, 1, Len(s) - 1)) ELSE s

\* str.strip()
StrStrip(s) == RStrip(LStrip(s))

\* (value or "").strip() or None
StripOrNone(v) ==
    LET t == StrStrip(IF Truthy(v) THEN v ELSE <<>>)
    IN  IF t = <<>> THEN None ELSE t

Digits == <<"0", "1", "2", "3", "4", "5", "6", "7", "8", "9">>

IsDigit(c) == \E i \in 1..10 : Digits[i] = c

DigitVal(c) == (CHOOSE i \in 1..10 : Digits[i] = c) - 1

RECURSIVE RemoveChars(_, _)
RemoveChars(s, cs) ==
    IF s = <<>> THEN s
    ELSE IF Head(s) \in cs THEN RemoveChars(Tail(s), cs)
         ELSE <<Head(s)>> \o RemoveChars(Tail(s), cs)

RECURSIVE DigitsToNat(_, _)
DigitsToNat(s, acc) ==
    IF s = <<>> THEN acc ELSE DigitsToNat(Tail(s), 10 * acc + DigitVal(Head(s)))

AllDigits(s) == s # <<>> /\ \A i \in 1..Len(s) : IsDigit(s[i])

\* float(text): surrounding blanks are ignored, then the text must be a
\* numeral.  The cells of the model are whole amounts, so a numeral is a
\* non-empty run of digits; anything else is the ValueError branch.
FloatOf(s) == LET t == StrStrip(s) IN IF AllDigits(t) THEN Num(DigitsToNat(t, 0)) ELSE None

_parse_decimal(value) ==
    IF value = None \/ value = <<>> THEN None
    ELSE FloatOf(RemoveChars(value, {"$", ","}))

_parse_int(value) ==
    IF value = None \/ value = <<>> THEN None
    ELSE FloatOf(RemoveChars(value, {","}))

\* One strptime format: a sequence of "d" (one digit) and literal characters.
MatchesFormat(t, fmt) ==
    /\ Len(t) = Len(fmt)
    /\ \A i \in 1..Len(t) : IF fmt[i] = "d" THEN IsDigit(t[i]) ELSE t[i] = fmt[i]

FmtYmd == <<"d", "d", "d", "d", "-", "d", "d", "-", "d", "d">>

FmtMdy == <<"d", "d", "/", "d", "d", "/", "d", "d", "d", "d">>

TimeSuffix == <<"T", "0", "0", ":", "0", "0", ":", "0", "0">>

\* The cells of the model carry dates without a time of day, so of the five
\* formats the two date-only ones can match; isoformat() of the parsed date
\* is YYYY-MM-DDT00:00:00.  A text no format matches is returned stripped.
_parse_datetime(value) ==
    IF value = None \/ value = <<>> THEN None
    ELSE LET text == StrStrip(value)
         IN  IF MatchesFormat(text, FmtYmd) THEN text \o TimeSuffix
             ELSE IF MatchesFormat(text, FmtMdy)
                  THEN SubSeq(text, 7, 10) \o <<"-">> \o SubSeq(text, 1, 2)
                       \o <<"-">> \o SubSeq(text, 4, 5) \o TimeSuffix
                  ELSE text

_strip(value) ==
    IF value = None \/ value = <<>> THEN None
    ELSE LET text == StrStrip(value) IN IF text = <<>> THEN None ELSE text

(***************************************************************************)
(* Table helpers.                                                          *)
(***************************************************************************)
\* SELECT ... WHERE key=? : the rowids whose column col equals v
RowsWhere(table, col, v) == {i \in 1..Len(table) : table[i][col] = v}

\* the result of a fetchone() that found nothing (Python None in place of a row)
NoRow == [none |-> TRUE]

IsNoRow(row) == DOMAIN row = {"none"}

\* cursor.fetchone() of such a SELECT: the first row, or no row
FetchOne(table, col, v) ==
    IF RowsWhere(table, col, v) = {} THEN NoRow
    ELSE table[CHOOSE i \in RowsWhere(table, col, v) :
                 \A j \in RowsWhere(table, col, v) : i <= j]

\* the UPDATE without its WHERE clause
UpdateWhere_EveryRow(table, col, v, updated) ==
    [i \in 1..Len(table) |-> updated[i]]

\* UPDATE ... WHERE key=? : every matching row i is replaced by updated[i]
UpdateWhere(table, col, v, updated) ==
    [i \in 1..Len(table) |-> IF table[i][col] = v THEN updated[i] ELSE table[i]]

(***************************************************************************)
(* edit_log                                                                *)
(***************************************************************************)
\* an entry written over the newest one instead of after it
_append_edit_log_Overwrite(log, entity_type, entity_pk, field, old_value, new_value, edited_by) ==
    Append(IF log = <<>> THEN log ELSE SubSeq(log, 1, Len(log) - 1),
           [entity_type |-> entity_type,
            entity_pk   |-> entity_pk,
            field       |-> field,
            old_value   |-> old_value,
            new_value   |-> new_value,
            edited_by   |-> edited_by])

\* str(x) of a key: an item_number is already a str
_append_edit_log(log, entity_type, entity_pk, field, old_value, new_value, edited_by) ==
    Append(log, [entity_type |-> entity_type,
                 entity_pk   |-> entity_pk,
                 field       |-> field,
                 old_value   |-> old_value,
                 new_value   |-> new_value,
                 edited_by   |-> edited_by])

(***************************************************************************)
(* inventory_items                                                         *)
(***************************************************************************)
UserInvFields == <<"custom_sku", "ebay_category1_name", "ebay_category1_number">>

allowed_WithTitle == {UserInvFields[i] : i \in 1..Len(UserInvFields)} \cup {"title"}

allowed == {UserInvFields[i] : i \in 1..Len(UserInvFields)}

get_inventory_item_v2(items, item_number) == FetchOne(items, "item_number", item_number)

\* _normalize(field) inside upsert_inventory_item_from_feed
_normalize(record, field) ==
    LET value == Get(record, field)
    IN  IF IsStr(value)
        THEN (IF StrStrip(value) = <<>> THEN None ELSE StrStrip(value))
        ELSE value

Active == <<"a", "c", "t", "i", "v", "e">>

FeedPayload(record, timestamp) ==
    [item_number           |-> Get(record, "item_number"),
     title                 |-> Get(record, "title"),
     custom_sku            |-> _normalize(record, "custom_sku"),
     current_price         |-> Get(record, "current_price"),
     available_quantity    |-> Get(record, "available_quantity"),
     ebay_category1_name   |-> _normalize(record, "ebay_category1_name"),
     ebay_category1_number |-> _normalize(record, "ebay_category1_number"),
     condition             |-> _normalize(record, "condition"),
     listing_site          |-> _normalize(record, "listing_site"),
     start_date            |-> _normalize(record, "start_date"),
     end_date              |-> _normalize(record, "end_date"),
     status                |-> GetDefault(record, "status", Active),
     last_sync_at          |-> timestamp]

\* the value of one user-owned field an existing row keeps, or None when
\* the stored value counts as empty
KeptValue(existing, field) ==
    LET current_value == existing[field]
        cv == IF IsStr(current_value) /\ StrStrip(current_value) = <<>>
              THEN None ELSE current_value
    IN  cv

PreserveUserFields_FeedWins(payload, existing) == payload

\* for field in ("custom_sku", ...): keep the stored value when non-empty
PreserveUserFields(payload, existing) ==
    [f \in DOMAIN payload |->
        IF f \in allowed /\ KeptValue(existing, f) # None /\ KeptValue(existing, f) # <<>>
        THEN KeptValue(existing, f)
        ELSE payload[f]]

\* the UPDATE statement with current_price left out of its SET list
UpdatedInventoryRow_PriceKept(row, payload) ==
    [payload EXCEPT !.item_number = row.item_number, !.status = Active,
                    !.current_price = row.current_price]

\* the UPDATE statement: every column but item_number, status forced
UpdatedInventoryRow(row, payload) ==
    [payload EXCEPT !.item_number = row.item_number, !.status = Active]

WriteInventoryRow_AlwaysInsert(items, payload, existing) == Append(items, payload)

\* the row written by the upsert: UPDATE of the existing row, else INSERT
WriteInventoryRow(items, payload, existing) ==
    IF ~IsNoRow(existing)
    THEN LET p == PreserveUserFields(payload, existing)
         IN  UpdateWhere(items, "item_number", payload.item_number,
                         [i \in 1..Len(items) |-> UpdatedInventoryRow(items[i], p)])
    ELSE Append(items, payload)

\* upsert_inventory_item_from_feed: the table afterwards and the outcome
\* ("True" inserted, "False" updated, or the exception raised)
upsert_inventory_item_from_feed(items, record, timestamp) ==
    LET item_number == Get(record, "item_number")
        existing    == get_inventory_item_v2(items, item_number)
        payload     == FeedPayload(record, timestamp)
    IN  IF ~Truthy(item_number)
        THEN [items |-> items, result |-> "ValueError"]
        ELSE IF payload.title = None   \* title TEXT NOT NULL
        THEN [items |-> items, result |-> "IntegrityError"]
        ELSE [items  |-> WriteInventoryRow(items, payload, existing),
              result |-> IF ~IsNoRow(existing) THEN "False" ELSE "True"]

\* new_value / old_value normalisation of the user-field updates
NormNew(value) ==
    LET v == IF IsStr(value) THEN StrStrip(value) ELSE value
    IN  IF v = <<>> THEN None ELSE v

NormOld(value) == IF value = <<>> THEN None ELSE value

RECURSIVE Changes_LogAll(_, _, _)
Changes_LogAll(current, updates, fields) ==
    IF updates = <<>> THEN <<>>
    ELSE LET field     == Head(updates)[1]
             new_value == NormNew(Head(updates)[2])
             old_value == NormOld(Get(current, field))
             rest      == Changes_LogAll(current, Tail(updates), fields)
         IN  IF field \notin fields THEN rest
             ELSE <<[field |-> field, old_value |-> old_value, new_value |-> new_value]>> \o rest

\* the (field, old_value, new_value) triples of an update: updates is the
\* dict in insertion order, a sequence of <<field, value>> pairs
RECURSIVE Changes(_, _, _)
Changes(current, updates, fields) ==
    IF updates = <<>> THEN <<>>
    ELSE LET field     == Head(updates)[1]
             new_value == NormNew(Head(updates)[2])
             old_value == NormOld(Get(current, field))
             rest      == Changes(current, Tail(updates), fields)
         IN  IF field \notin fields THEN rest
             ELSE IF old_value = new_value THEN rest
             ELSE <<[field |-> field, old_value |-> old_value, new_value |-> new_value]>> \o rest

\* UPDATE table SET pending: the row with the pending values written
ApplyChanges(row, changes) ==
    [f \in DOMAIN row |->
        IF \E i \in 1..Len(changes) : changes[i].field = f
        THEN changes[CHOOSE i \in 1..Len(changes) : changes[i].field = f].new_value
        ELSE row[f]]

RECURSIVE LogChanges(_, _, _, _, _)
LogChanges(log, entity_type, entity_pk, changes, edited_by) ==
    IF changes = <<>> THEN log
    ELSE LogChanges(_append_edit_log(log, entity_type, entity_pk, Head(changes).field,
                                     Head(changes).old_value, Head(changes).new_value,
                                     edited_by),
                    entity_type, entity_pk, Tail(changes), edited_by)

InventoryItemEntity == <<"i", "n", "v", "e", "n", "t", "o", "r", "y", "_", "i", "t", "e", "m">>

update_inventory_item_user_fields(items, log, item_number, updates, edited_by) ==
    LET current == get_inventory_item_v2(items, item_number)
        changes == Changes(current, updates, allowed)
    IN  IF updates = <<>> THEN [items |-> items, log |-> log, result |-> "False"]
        ELSE IF IsNoRow(current) THEN [items |-> items, log |-> log, result |-> "False"]
        ELSE IF changes = <<>> THEN [items |-> items, log |-> log, result |-> "False"]
        ELSE [items  |-> UpdateWhere(items, "item_number", item_number,
                                     [i \in 1..Len(items) |-> ApplyChanges(items[i], changes)]),
              log    |-> LogChanges(log, InventoryItemEntity, item_number, changes, edited_by),
              result |-> "True"]

(***************************************************************************)
(* import_inventory_from_csv.  A file is the sequence of its data rows,    *)
(* each row the dict `canonical` (canonical header -> cell text).          *)
(***************************************************************************)
REQUIRED_FIELDS == {"item_number", "title"}

\* the test of the required fields left out
RowSkipped_Never(canonical) == FALSE

RowSkipped(canonical) ==
    \E field \in REQUIRED_FIELDS :
        field \notin DOMAIN canonical
        \/ StrStrip(IF Truthy(canonical[field]) THEN canonical[field] ELSE <<>>) = <<>>

InventoryRecord(canonical) ==
    [item_number           |-> StrStrip(IF Truthy(Get(canonical, "item_number"))
                                        THEN canonical["item_number"] ELSE <<>>),
     title                 |-> StrStrip(IF Truthy(Get(canonical, "title"))
                                        THEN canonical["title"] ELSE <<>>),
     custom_sku            |-> StripOrNone(Get(canonical, "custom_sku")),
     current_price         |-> _parse_decimal(Get(canonical, "current_price")),
     available_quantity    |-> _parse_int(Get(canonical, "available_quantity")),
     ebay_category1_name   |-> StripOrNone(Get(canonical, "ebay_category1_name")),
     ebay_category1_number |-> StripOrNone(Get(canonical, "ebay_category1_number")),
     condition             |-> StripOrNone(Get(canonical, "condition")),
     listing_site          |-> StripOrNone(Get(canonical, "listing_site")),
     start_date            |-> _parse_datetime(Get(canonical, "start_date")),
     end_date              |-> _parse_datetime(Get(canonical, "end_date")),
     status                |-> Active]

\* the warnings one row adds, before the upsert
ValueWarnings(canonical, row_index) ==
    (IF Get(canonical, "current_price") \notin {None, <<>>}
        /\ _parse_decimal(Get(canonical, "current_price")) = None
     THEN <<[row |-> row_index, kind |-> "non-numeric price"]>> ELSE <<>>)
    \o
    (IF Get(canonical, "available_quantity") \notin {None, <<>>}
        /\ _parse_int(Get(canonical, "available_quantity")) = None
     THEN <<[row |-> row_index, kind |-> "non-numeric quantity"]>> ELSE <<>>)

\* the body of the row loop, rows row_index..Len(rows)
RECURSIVE InventoryRowLoop(_, _, _, _, _, _)
InventoryRowLoop(items, rows, row_index, summary, timestamp, failing) ==
    IF row_index > Len(rows) THEN [items |-> items, summary |-> summary]
    ELSE
      LET canonical == rows[row_index]
          read      == [summary EXCEPT !.rows_read = @ + 1]
      IN  IF RowSkipped(canonical)
          THEN InventoryRowLoop(items, rows, row_index + 1,
                   [read EXCEPT !.skipped = @ + 1,
                                !.warnings = Append(@, [row |-> row_index,
                                                        kind |-> "missing required fields"])],
                   timestamp, failing)
          ELSE
            LET warned == [read EXCEPT !.warnings = @ \o ValueWarnings(canonical, row_index)]
                up     == IF row_index \in failing
                          THEN [items |-> items, result |-> "OperationalError"]
                          ELSE upsert_inventory_item_from_feed(items, InventoryRecord(canonical),
                                                               timestamp)
            IN  IF up.result \in {"True", "False"}
                THEN InventoryRowLoop(up.items, rows, row_index + 1,
                         [warned EXCEPT !.upserts = @ + 1], timestamp, failing)
                ELSE InventoryRowLoop(up.items, rows, row_index + 1,
                         [warned EXCEPT !.skipped = @ + 1,
                                        !.warnings = Append(@, [row |-> row_index,
                                                                kind |-> "failed to upsert"])],
                         timestamp, failing)

\* path.exists() and csv.DictReader: the exception raised before any row is
\* read ("no" when the reader is ready).  fieldnames is None only when the
\* file has no line at all; a blank first line gives the field names []
OpenInventoryCsv(layout) ==
    IF ~layout.exists THEN "FileNotFoundError"
    ELSE IF layout.blank_lines = 0 /\ ~layout.header THEN "ValueError"
    ELSE "no"

\* the dicts `canonical` of the data rows the reader yields: with the field
\* names [] every later non-blank line, the header line included, is a row
\* without any named cell
InventoryDataRows(layout, rows) ==
    IF layout.blank_lines > 0
    THEN [i \in 1..(Len(rows) + (IF layout.header THEN 1 ELSE 0)) |-> <<>>]
    ELSE rows

\* the table after the call, the summary, and the exception that ended it
\* ("no" when it returned), when the statements of the upserts of the rows
\* in `failing` raise sqlite3.OperationalError (the database is locked by
\* another connection for the time of those rows)
import_inventory_with_failures(items, layout, rows, timestamp, failing) ==
    LET summary == [rows_read |-> 0, upserts |-> 0, skipped |-> 0, warnings |-> <<>>]
        done    == InventoryRowLoop(items, InventoryDataRows(layout, rows), 1,
                                    summary, timestamp, failing)
    IN  IF OpenInventoryCsv(layout) # "no"
        THEN [items |-> items, raised |-> OpenInventoryCsv(layout), summary |-> summary]
        ELSE [items |-> done.items, raised |-> "no", summary |-> done.summary]

\* the call when every statement runs
import_inventory_from_csv(items, layout, rows, timestamp) ==
    import_inventory_with_failures(items, layout, rows, timestamp, {})

(***************************************************************************)
(* sales_orders                                                            *)
(***************************************************************************)
OrderStringFields ==
    <<"sales_record_number", "buyer_username", "buyer_name", "buyer_email",
      "ship_to_name", "ship_to_phone", "ship_to_address_1", "ship_to_address_2",
      "ship_to_city", "ship_to_state", "ship_to_zip", "ship_to_country", "status">>

OrderColumns ==
    {"order_number", "order_total", "ordered_at", "paid_at", "shipped_on_date", "meta_json"}
    \cup {OrderStringFields[i] : i \in 1..Len(OrderStringFields)}

\* a statement with named parameters needs every one of them in the dict
Binds(record, params) == params \subseteq DOMAIN record

get_sales_order_v2(orders, order_number) == FetchOne(orders, "order_number", order_number)

UpsertRow_AlwaysInsert(table, key, row) == Append(table, row)

\* INSERT ... ON CONFLICT(key) DO UPDATE SET every other column = excluded
UpsertRow(table, key, row) ==
    IF RowsWhere(table, key, row[key]) # {}
    THEN UpdateWhere(table, key, row[key], [i \in 1..Len(table) |-> row])
    ELSE Append(table, row)

upsert_sales_order_from_feed_Unwritten(orders, record) ==
    [orders |-> orders, result |-> "True"]

upsert_sales_order_from_feed(orders, record) ==
    LET order_number == Get(record, "order_number")
        existing     == get_sales_order_v2(orders, order_number)
    IN  IF ~Truthy(order_number)
        THEN [orders |-> orders, result |-> "ValueError"]
        ELSE IF ~Binds(record, OrderColumns)
        THEN [orders |-> orders, result |-> "ProgrammingError"]
        ELSE [orders |-> UpsertRow(orders, "order_number",
                                   [c \in OrderColumns |-> record[c]]),
              result |-> IF IsNoRow(existing) THEN "True" ELSE "False"]

(***************************************************************************)
(* sales_order_items                                                       *)
(***************************************************************************)
RECURSIVE DecStr(_)
DecStr(n) == IF n < 10 THEN <<Digits[n + 1]>>
             ELSE DecStr(n \div 10) \o <<Digits[(n % 10) + 1]>>

\* str(id), CAST(id AS TEXT)
IdText(id) == DecStr(id)

ItemFeedColumns ==
    {"item_number", "item_title_snapshot", "custom_sku", "quantity", "unit_price",
     "tax_amount", "shipping_amount", "discount_amount"}

ItemColumns == {"order_number", "transaction_id"} \cup ItemFeedColumns

\* WHERE order_number=? AND ((transaction_id IS NULL AND ? IS NULL) OR transaction_id=?)
LineMatches_NotNullSafe(row, order_number, transaction_id) ==
    /\ row.order_number = order_number
    /\ row.transaction_id # None /\ transaction_id # None
    /\ row.transaction_id = transaction_id

LineMatches(row, order_number, transaction_id) ==
    /\ row.order_number = order_number
    /\ \/ (row.transaction_id = None /\ transaction_id = None)
       \/ (row.transaction_id # None /\ transaction_id # None
           /\ row.transaction_id = transaction_id)

\* ... ORDER BY id ASC LIMIT 1
ExistingLine(items, order_number, transaction_id) ==
    LET found == {i \in 1..Len(items) : LineMatches(items[i], order_number, transaction_id)}
    IN  IF found = {} THEN NoRow
        ELSE items[CHOOSE i \in found : \A j \in found : items[i].id <= items[j].id]

\* ux_order_line: (order_number, COALESCE(transaction_id, CAST(id AS TEXT)))
LineKey(row) ==
    <<row.order_number,
      IF row.transaction_id = None THEN IdText(row.id) ELSE row.transaction_id>>

\* INTEGER PRIMARY KEY: one more than the largest rowid in use
NextId(table) ==
    IF table = <<>> THEN 1
    ELSE 1 + (CHOOSE m \in {table[i].id : i \in 1..Len(table)} :
                \A i \in 1..Len(table) : table[i].id <= m)

KeepLineSku_FeedWins(payload, existing) == payload

\* if existing and existing["custom_sku"] not in (None, ""): keep it
KeepLineSku(payload, existing) ==
    IF ~IsNoRow(existing) /\ existing.custom_sku # None /\ existing.custom_sku # <<>>
    THEN [k \in DOMAIN payload \cup {"custom_sku"} |->
             IF k = "custom_sku" THEN existing.custom_sku ELSE payload[k]]
    ELSE payload

\* the outcome is "False" (updated), "True" (inserted) or the exception
upsert_sales_order_item_from_feed(items, record) ==
    LET order_number   == Get(record, "order_number")
        transaction_id == Get(record, "transaction_id")
        existing       == ExistingLine(items, order_number, transaction_id)
        payload        == KeepLineSku(record, existing)
        inserted       == [c \in ItemColumns \cup {"id"} |->
                              IF c = "id" THEN NextId(items) ELSE payload[c]]
    IN  IF ~Truthy(order_number)
        THEN [items |-> items, id |-> 0, result |-> "ValueError"]
        ELSE IF ~IsNoRow(existing)
        THEN IF ~Binds(payload, ItemFeedColumns)
             THEN [items |-> items, id |-> 0, result |-> "ProgrammingError"]
             ELSE [items |-> UpdateWhere(items, "id", existing.id,
                                [i \in 1..Len(items) |-> [c \in DOMAIN items[i] |->
                                    IF c \in ItemFeedColumns THEN payload[c] ELSE items[i][c]]]),
                   id |-> existing.id, result |-> "False"]
        ELSE IF ~Binds(payload, ItemColumns)
        THEN [items |-> items, id |-> 0, result |-> "ProgrammingError"]
        ELSE IF \E i \in 1..Len(items) : LineKey(items[i]) = LineKey(inserted)
        THEN [items |-> items, id |-> 0, result |-> "IntegrityError"]
        ELSE [items |-> Append(items, inserted), id |-> inserted.id, result |-> "True"]

get_sales_order_item_v2(items, order_item_id) == FetchOne(items, "id", order_item_id)

SalesOrderItemEntity ==
    <<"s", "a", "l", "e", "s", "_", "o", "r", "d", "e", "r", "_", "i", "t", "e", "m">>

update_sales_order_item_user_fields(items, log, order_item_id, updates, edited_by) ==
    LET current == get_sales_order_item_v2(items, order_item_id)
        changes == Changes(current, updates, {"custom_sku"})
    IN  IF updates = <<>> THEN [items |-> items, log |-> log, result |-> "False"]
        ELSE IF IsNoRow(current) THEN [items |-> items, log |-> log, result |-> "False"]
        ELSE IF changes = <<>> THEN [items |-> items, log |-> log, result |-> "False"]
        ELSE [items  |-> UpdateWhere(items, "id", order_item_id,
                                     [i \in 1..Len(items) |-> ApplyChanges(items[i], changes)]),
              log    |-> LogChanges(log, SalesOrderItemEntity, IdText(order_item_id),
                                    changes, edited_by),
              result |-> "True"]

(***************************************************************************)
(* shipments                                                               *)
(***************************************************************************)
ShipmentColumns ==
    {"order_number", "shipping_service", "tracking_number", "label_cost", "shipped_on_date"}

\* the outcome is "None" (nothing written), "True", "False" or the exception
upsert_shipment_from_feed(ships, record) ==
    LET tracking_number == Get(record, "tracking_number")
        existing        == FetchOne(ships, "tracking_number", tracking_number)
        row             == [c \in ShipmentColumns \cup {"id"} |->
                               IF c = "id"
                               THEN (IF IsNoRow(existing) THEN NextId(ships) ELSE existing.id)
                               ELSE record[c]]
    IN  IF ~Truthy(tracking_number)
        THEN [ships |-> ships, result |-> "None"]
        ELSE IF ~Binds(record, ShipmentColumns)
        THEN [ships |-> ships, result |-> "ProgrammingError"]
        ELSE IF record["order_number"] = None   \* order_number TEXT NOT NULL
        THEN [ships |-> ships, result |-> "IntegrityError"]
        ELSE [ships |-> UpsertRow(ships, "tracking_number", row),
              result |-> IF IsNoRow(existing) THEN "True" ELSE "False"]

(***************************************************************************)
(* import_orders_from_csv.  Phase 1 folds the rows into the dicts          *)
(* orders_payload, orders_meta, order_items_payload, shipments_payload     *)
(* and line_index; a dict is kept as the sequence of its values in         *)
(* insertion order.  Phase 2 upserts them.                                 *)
(***************************************************************************)
META_FIELDS == <<"seller_collected_tax", "ebay_collected_tax", "shipping_amount", "discount_amount">>

\* the key of a dict entry: its value restricted to the key fields
KeyOf(value, keys) == [k \in keys |-> value[k]]

\* d[key] = value on an insertion-ordered dict: an existing key keeps its place
DictPut(d, keys, value) ==
    IF \E i \in 1..Len(d) : KeyOf(d[i], keys) = KeyOf(value, keys)
    THEN [i \in 1..Len(d) |-> IF KeyOf(d[i], keys) = KeyOf(value, keys) THEN value ELSE d[i]]
    ELSE Append(d, value)

\* key in d, d[key]: the key given as the order_number of the entry
DictHas(d, order_number) == \E i \in 1..Len(d) : d[i]["order_number"] = order_number

DictAt(d, order_number) == d[CHOOSE i \in 1..Len(d) : d[i]["order_number"] = order_number]

\* orders_payload.setdefault(order_number, {...all None...})
NewOrderPayload(order_number) ==
    [c \in OrderColumns |-> IF c = "order_number" THEN order_number ELSE None]

\* if value is not None: payload[field] = value
LastNonEmpty(old, parsed) == IF parsed # None THEN parsed ELSE old

\* the scalar merge of one row into the order's payload
MergeOrderRow(payload, canonical) ==
    [c \in OrderColumns |->
        IF \E i \in 1..Len(OrderStringFields) : OrderStringFields[i] = c
        THEN LastNonEmpty(payload[c], _strip(Get(canonical, c)))
        ELSE IF c = "order_total"
        THEN LastNonEmpty(payload[c], _parse_decimal(Get(canonical, c)))
        ELSE IF c \in {"ordered_at", "paid_at", "shipped_on_date"}
        THEN LastNonEmpty(payload[c], _parse_datetime(Get(canonical, c)))
        ELSE payload[c]]

\* orders_meta[order_number][meta_field] = str(value): the entry after a
\* non-empty cell, given the entry before (None when there was none)
MetaPut(meta, cell) == cell

\* the order's meta dict after one row
MergeMetaRow(meta, canonical) ==
    [f \in {META_FIELDS[i] : i \in 1..Len(META_FIELDS)} |->
        IF Get(canonical, f) \notin {None, <<>>}
        THEN MetaPut(meta[f], Get(canonical, f))
        ELSE meta[f]]

EmptyMeta == [f \in {META_FIELDS[i] : i \in 1..Len(META_FIELDS)} |-> None]

SortedMetaKeys == <<"discount_amount", "ebay_collected_tax", "seller_collected_tax", "shipping_amount">>

RECURSIVE JsonPairs(_, _)
JsonPairs(meta, keys) ==
    IF keys = <<>> THEN <<>>
    ELSE (IF meta[Head(keys)] # None THEN <<<<Head(keys), meta[Head(keys)]>>>> ELSE <<>>)
         \o JsonPairs(meta, Tail(keys))

\* json.dumps(meta, sort_keys=True) if meta else None: the JSON object as
\* the sequence of its "key": "value" members in key order
MetaJson(meta) == IF JsonPairs(meta, SortedMetaKeys) = <<>> THEN None
                  ELSE JsonPairs(meta, SortedMetaKeys)

Pad3(text) == IF Len(text) >= 3 THEN text
              ELSE IF Len(text) = 2 THEN <<"0">> \o text ELSE <<"0", "0">> \o text

\* f"line-{n:03d}"
LineId(n) == <<"l", "i", "n", "e", "-">> \o Pad3(DecStr(n))

\* the transaction_id given to the n-th line of its order
AssignTransactionId(canonical, n) ==
    IF _strip(Get(canonical, "transaction_id")) = None
    THEN LineId(n)
    ELSE _strip(Get(canonical, "transaction_id"))

Plus(a, b) == Num((IF a = None THEN 0 ELSE a[2]) + (IF b = None THEN 0 ELSE b[2]))

TaxValue(canonical) ==
    LET tax_value == _parse_decimal(Get(canonical, "tax_amount"))
        seller    == _parse_decimal(Get(canonical, "seller_collected_tax"))
        ebay      == _parse_decimal(Get(canonical, "ebay_collected_tax"))
    IN  IF tax_value # None THEN tax_value
        ELSE IF seller # None \/ ebay # None THEN Plus(seller, ebay)
        ELSE None

ItemRecord(canonical, order_number, transaction_id) ==
    [order_number        |-> order_number,
     transaction_id      |-> transaction_id,
     item_number         |-> _strip(Get(canonical, "item_number")),
     item_title_snapshot |-> IF _strip(Get(canonical, "item_title")) = None THEN <<>>
                             ELSE _strip(Get(canonical, "item_title")),
     custom_sku          |-> _strip(Get(canonical, "custom_sku")),
     quantity            |-> IF Truthy(_parse_int(Get(canonical, "quantity")))
                             THEN _parse_int(Get(canonical, "quantity")) ELSE Num(1),
     unit_price          |-> _parse_decimal(Get(canonical, "unit_price")),
     tax_amount          |-> TaxValue(canonical),
     shipping_amount     |-> _parse_decimal(Get(canonical, "shipping_amount")),
     discount_amount     |-> _parse_decimal(Get(canonical, "discount_amount"))]

ShipmentRecord(canonical, order_number, tracking_number) ==
    [order_number     |-> order_number,
     shipping_service |-> _strip(Get(canonical, "shipping_service")),
     tracking_number  |-> tracking_number,
     label_cost       |-> _parse_decimal(Get(canonical, "label_cost")),
     shipped_on_date  |-> _parse_datetime(Get(canonical, "shipped_on_date"))]

EmptyAccumulator ==
    [orders_payload      |-> <<>>,
     orders_meta         |-> <<>>,
     order_items_payload |-> <<>>,
     shipments_payload   |-> <<>>,
     line_index          |-> <<>>,
     assigned            |-> <<>>,   \* per row: the item_record's key (None, None when skipped)
     summary |-> [rows_read |-> 0, orders_upserted |-> 0, order_items_upserted |-> 0,
                  shipments_upserted |-> 0, skipped |-> 0, warnings |-> <<>>]]

LineIndex_Global(acc, order_number) ==
    Cardinality({r \in 1..Len(acc.assigned) : acc.assigned[r] # <<None, None>>})

\* line_index[order_number] of the defaultdict(int)
LineIndex(acc, order_number) ==
    IF DictHas(acc.line_index, order_number)
    THEN DictAt(acc.line_index, order_number).n
    ELSE 0

\* the body of the row loop for one row
AccumulateRow(acc, canonical, row_index) ==
    LET order_number == _strip(Get(canonical, "order_number"))
        read == [acc.summary EXCEPT !.rows_read = @ + 1]
    IN  IF order_number = None
        THEN [acc EXCEPT !.assigned = Append(@, <<None, None>>),
                         !.summary = [read EXCEPT !.skipped = @ + 1,
                                        !.warnings = Append(@, [row |-> row_index,
                                                                kind |-> "missing order number"])]]
        ELSE
          LET old_payload == IF DictHas(acc.orders_payload, order_number)
                             THEN DictAt(acc.orders_payload, order_number)
                             ELSE NewOrderPayload(order_number)
              old_meta == IF DictHas(acc.orders_meta, order_number)
                          THEN DictAt(acc.orders_meta, order_number).meta
                          ELSE EmptyMeta
              transaction_id == AssignTransactionId(canonical, LineIndex(acc, order_number) + 1)
              tracking_number == _strip(Get(canonical, "tracking_number"))
          IN  [orders_payload |->
                   DictPut(acc.orders_payload, {"order_number"}, MergeOrderRow(old_payload, canonical)),
               orders_meta |->
                   DictPut(acc.orders_meta, {"order_number"},
                           [order_number |-> order_number,
                            meta |-> MergeMetaRow(old_meta, canonical)]),
               order_items_payload |->
                   DictPut(acc.order_items_payload, {"order_number", "transaction_id"},
                           ItemRecord(canonical, order_number, transaction_id)),
               shipments_payload |->
                   IF tracking_number # None
                   THEN DictPut(acc.shipments_payload, {"tracking_number"},
                                ShipmentRecord(canonical, order_number, tracking_number))
                   ELSE acc.shipments_payload,
               line_index |->
                   DictPut(acc.line_index, {"order_number"},
                           [order_number |-> order_number,
                            n |-> LineIndex(acc, order_number) + 1]),
               assigned |-> Append(acc.assigned, <<order_number, transaction_id>>),
               summary |-> read]

RECURSIVE Accumulate(_, _, _)
Accumulate(acc, rows, row_index) ==
    IF row_index > Len(rows) THEN acc
    ELSE Accumulate(AccumulateRow(acc, rows[row_index], row_index), rows, row_index + 1)

\* for order_number, payload in orders_payload.items(): upsert the order
RECURSIVE UpsertOrders(_, _, _)
UpsertOrders(orders, acc, k) ==
    IF k > Len(acc.orders_payload) THEN orders
    ELSE LET payload == acc.orders_payload[k]
             meta == IF DictHas(acc.orders_meta, payload["order_number"])
                     THEN DictAt(acc.orders_meta, payload["order_number"]).meta
                     ELSE EmptyMeta
             record == [payload EXCEPT !["meta_json"] = MetaJson(meta)]
         IN  UpsertOrders(upsert_sales_order_from_feed(orders, record).orders, acc, k + 1)

\* order_items_payload.values() then items.values(): the records grouped by
\* order in first-seen order, within an order in insertion order
RECURSIVE ItemsInUpsertOrder(_, _)
ItemsInUpsertOrder(acc, k) ==
    IF k > Len(acc.orders_payload) THEN <<>>
    ELSE SelectSeq(acc.order_items_payload,
                   LAMBDA record : record["order_number"] = acc.orders_payload[k]["order_number"])
         \o ItemsInUpsertOrder(acc, k + 1)

\* the item loop: stops at the first upsert that raises
RECURSIVE UpsertItems(_, _, _, _)
UpsertItems(items, records, k, count) ==
    IF k > Len(records) THEN [items |-> items, count |-> count, raised |-> "no"]
    ELSE LET up == upsert_sales_order_item_from_feed(items, records[k])
         IN  IF up.result \in {"True", "False"}
             THEN UpsertItems(up.items, records, k + 1, count + 1)
             ELSE [items |-> up.items, count |-> count, raised |-> up.result]

RECURSIVE UpsertShipments(_, _, _, _)
UpsertShipments(ships, records, k, count) ==
    IF k > Len(records) THEN [ships |-> ships, count |-> count]
    ELSE LET up == upsert_shipment_from_feed(ships, records[k])
         IN  UpsertShipments(up.ships, records, k + 1,
                             IF up.result # "None" THEN count + 1 ELSE count)

(***************************************************************************)
(* Inputs of the exploration: cell texts, feed records, files, updates.    *)
(***************************************************************************)
Timestamps == {<<"t", "1">>, <<"t", "2">>}

\* a path: whether a file is there, how many blank lines it starts with,
\* and whether a header line follows them
CsvLayout(exists, blank_lines, header) ==
    [exists |-> exists, blank_lines |-> blank_lines, header |-> header]

Ymd == <<"2", "0", "2", "5", "-", "0", "1", "-", "0", "7">>

Mdy == <<"0", "1", "/", "0", "5", "/", "2", "0", "2", "5">>

InvRow(item_number, title, sku, category, price) ==
    [item_number           |-> item_number,
     title                 |-> title,
     custom_sku            |-> sku,
     current_price         |-> price,
     available_quantity    |-> <<"5">>,
     ebay_category1_name   |-> category,
     ebay_category1_number |-> <<>>,
     condition             |-> <<"N">>,
     listing_site          |-> <<>>,
     start_date            |-> Mdy,
     end_date              |-> <<"s", "o", "o", "n">>]

\* the active-listings files: one item_number on two rows with different
\* values (the second item-number cell padded); a skipped row followed by a
\* row with a blank SKU and a non-numeric price
InventoryFiles ==
    << <<InvRow(<<"1">>, <<"W">>, <<>>, <<>>, <<"9">>),
         InvRow(<<" ", "1">>, <<"G">>, <<"F">>, <<" ", "C">>, <<"$", "8">>)>>,
       <<InvRow(<<" ">>, <<"W">>, <<"F">>, <<>>, <<"9">>),
         InvRow(<<"2">>, <<"G">>, <<" ">>, <<>>, <<"x">>)>>,
       <<>>, <<>>, <<>> >>

\* what is at the path of each file: a header line and the rows above; no
\* file; an empty file; a file of two blank lines
InventoryFileLayout ==
    <<CsvLayout(TRUE, 0, TRUE), CsvLayout(TRUE, 0, TRUE),
      CsvLayout(FALSE, 0, FALSE), CsvLayout(TRUE, 0, FALSE), CsvLayout(TRUE, 2, FALSE)>>

\* records handed to upsert_inventory_item_from_feed directly: a sparse
\* record; a record with a blank SKU, a blank condition and a null status; a record with an
\* empty item_number; a record without item_number; a record without title
InventoryFeedRecords ==
    { [item_number |-> <<"1">>, title |-> <<"W">>, custom_sku |-> <<"F">>],
      [item_number |-> <<"1">>, title |-> <<"W">>, custom_sku |-> <<" ">>,
       condition |-> <<" ">>, status |-> None],
      [item_number |-> <<>>, title |-> <<"W">>],
      [custom_sku |-> <<"F">>],
      [item_number |-> <<"2">>, custom_sku |-> <<"F">>] }

\* the item_numbers user updates address: a listed item and an unknown one
ItemNumbers == {<<"1">>, <<"7">>}

\* the update maps of update_inventory_item_user_fields, in insertion order
InventoryUpdates ==
    { <<>>,
      << <<"custom_sku", <<"U">>>> >>,
      << <<"custom_sku", <<>>>> >>,
      << <<"title", <<"X">>>>, <<"ebay_category1_name", <<"T">>>>,
         <<"custom_sku", <<" ", "F">>>>, <<"ebay_category1_number", <<" ">>>> >> }

Editors == {<<"m", "e">>}

OrdRow(order_number, transaction_id, sku, shipping, tracking, name, shipped) ==
    [order_number        |-> order_number,
     sales_record_number |-> <<"R">>,
     buyer_name          |-> name,
     order_total         |-> <<"$", "9">>,
     ordered_at          |-> Mdy,
     shipped_on_date     |-> shipped,
     status              |-> <<>>,
     transaction_id      |-> transaction_id,
     item_number         |-> <<"1">>,
     item_title          |-> <<"W">>,
     custom_sku          |-> sku,
     quantity            |-> <<"2">>,
     unit_price          |-> <<"9">>,
     shipping_amount     |-> shipping,
     discount_amount     |-> <<>>,
     shipping_service    |-> <<"U">>,
     tracking_number     |-> tracking]

\* the completed-orders files: two rows of one order, the second without a
\* transaction id and with a blank in its ship-date cell; a skipped row, then rows of two orders interleaved, two
\* of them without a transaction id and one with padded cells; three files
\* without rows; four rows of one order, the first two with one transaction
\* id, the third with the id line-004 and the fourth without id
OrderFiles ==
    << <<OrdRow(<<"A">>, <<"1">>, <<"S">>, <<"5">>, <<"Z">>, <<"J">>, Ymd),
         OrdRow(<<"A">>, <<>>, <<>>, <<"5">>, <<"Z">>, <<>>, <<" ">>)>>,
       <<OrdRow(<<" ">>, <<"1">>, <<"S">>, <<"5">>, <<"Z">>, <<"J">>, Ymd),
         OrdRow(<<"B">>, <<" ">>, <<>>, <<"3">>, <<>>, <<"K">>, <<>>),
         OrdRow(<<"A", " ">>, <<"1", " ">>, <<"F">>, <<>>, <<>>, <<"J">>, <<>>),
         OrdRow(<<"B">>, <<>>, <<"S">>, <<"4">>, <<"Z">>, <<>>, Ymd)>>,
       <<>>, <<>>, <<>>,
       <<OrdRow(<<"A">>, <<"1">>, <<"S">>, <<"5">>, <<"Z">>, <<"J">>, Ymd),
         OrdRow(<<"A">>, <<"1">>, <<"S">>, <<"5">>, <<"Z">>, <<"J">>, Ymd),
         OrdRow(<<"A">>, <<"l", "i", "n", "e", "-", "0", "0", "4">>, <<>>, <<"5">>, <<"Z">>,
                <<"J">>, Ymd),
         OrdRow(<<"A">>, <<>>, <<>>, <<"5">>, <<"Z">>, <<"J">>, Ymd)>> >>

\* the place of the file whose rows repeat ids
RepeatedIdsFile == Len(OrderFiles)

\* what is at the path of each file: a header line and the rows above; no
\* file; an empty file; a file of two blank lines; for the file with
\* repeated ids again a header line and its rows
OrderFileLayout ==
    <<CsvLayout(TRUE, 0, TRUE), CsvLayout(TRUE, 0, TRUE),
      CsvLayout(FALSE, 0, FALSE), CsvLayout(TRUE, 0, FALSE), CsvLayout(TRUE, 2, FALSE),
      CsvLayout(TRUE, 0, TRUE)>>

LineRecord(order_number, transaction_id, sku) ==
    [order_number |-> order_number, transaction_id |-> transaction_id,
     item_number |-> <<"1">>, item_title_snapshot |-> <<"W">>, custom_sku |-> sku,
     quantity |-> Num(1), unit_price |-> Num(9), tax_amount |-> None,
     shipping_amount |-> None, discount_amount |-> None]

\* records handed to upsert_sales_order_item_from_feed directly: a line
\* without transaction id and with an empty SKU; a line with a blank SKU;
\* a record without order_number; a record that lacks the feed columns
OrderItemFeedRecords ==
    { LineRecord(<<"A">>, None, <<>>),
      LineRecord(<<"A">>, <<"1">>, <<" ">>),
      LineRecord(<<>>, <<"1">>, <<"F">>),
      [order_number |-> <<"A">>, transaction_id |-> <<"1">>] }

\* the ids user updates address: the first line and an unknown one
OrderItemIds == {1, 9}

\* the update maps of update_sales_order_item_user_fields, in insertion order
OrderItemUpdates ==
    { <<>>,
      << <<"custom_sku", <<"U">>>> >>,
      << <<"custom_sku", <<" ">>>> >>,
      << <<"item_number", <<"X">>>>, <<"custom_sku", <<" ">>>> >> }

OrderRecord(order_number, buyer_name, status) ==
    [c \in OrderColumns |-> IF c = "order_number" THEN order_number
                            ELSE IF c = "buyer_name" THEN buyer_name
                            ELSE IF c = "status" THEN status
                            ELSE None]

\* records handed to upsert_sales_order_from_feed directly: two different
\* records of order A, one of them all null; a record of order C; a record
\* with an empty order_number; a record that lacks the columns
OrderFeedRecords ==
    { OrderRecord(<<"A">>, <<"J">>, <<"p">>),
      OrderRecord(<<"A">>, None, None),
      OrderRecord(<<"C">>, <<"K">>, None),
      OrderRecord(<<>>, <<"J">>, None),
      [order_number |-> <<"A">>] }

ShipRecord(order_number, shipping_service, tracking_number, label_cost, shipped_on_date) ==
    [order_number |-> order_number, shipping_service |-> shipping_service,
     tracking_number |-> tracking_number, label_cost |-> label_cost,
     shipped_on_date |-> shipped_on_date]

\* records handed to upsert_shipment_from_feed directly: a full record of
\* tracking number Z; a record of Z for another order with every other
\* column null; a second tracking number; an empty and a missing tracking
\* number; a record without order_number; a record that lacks the columns
ShipmentFeedRecords ==
    { ShipRecord(<<"A">>, <<"P">>, <<"Z">>, Num(3), Ymd),
      ShipRecord(<<"C">>, None, <<"Z">>, None, None),
      ShipRecord(<<"A">>, <<"P">>, <<"Y">>, None, None),
      ShipRecord(<<"A">>, <<"P">>, <<>>, Num(3), Ymd),
      [order_number |-> <<"A">>, shipping_service |-> <<"P">>],
      ShipRecord(None, <<"P">>, <<"X">>, None, None),
      [tracking_number |-> <<"Z">>] }

\* Phase 1 reads nothing but the file: the accumulated dicts of every file
Phase1 == [file \in 1..Len(OrderFiles) |-> Accumulate(EmptyAccumulator, OrderFiles[file], 1)]

\* path.exists() and _prepare_reader: the exception raised before any row
\* is read ("no" when the reader is ready); leading blank lines are skipped
OpenOrdersCsv(layout) ==
    IF ~layout.exists THEN "FileNotFoundError"
    ELSE IF ~layout.header THEN "ValueError"
    ELSE "no"

\* the tables after the call, the summary, and the exception that ended it
\* ("no" when it returned)
import_orders_from_csv(orders, items, ships, file) ==
    LET acc    == Phase1[file]
        orders2 == UpsertOrders(orders, acc, 1)
        li     == UpsertItems(items, ItemsInUpsertOrder(acc, 1), 1, 0)
        sh     == UpsertShipments(ships, acc.shipments_payload, 1, 0)
    IN  IF OpenOrdersCsv(OrderFileLayout[file]) # "no"
        THEN [orders |-> orders, items |-> items, ships |-> ships,
              raised |-> OpenOrdersCsv(OrderFileLayout[file]), assigned |-> <<>>,
              summary |-> EmptyAccumulator.summary]
        ELSE IF li.raised # "no"
        THEN [orders |-> orders2, items |-> li.items, ships |-> ships,
              raised |-> li.raised, assigned |-> acc.assigned,
              summary |-> [acc.summary EXCEPT !.orders_upserted = Len(acc.orders_payload),
                                              !.order_items_upserted = li.count]]
        ELSE [orders |-> orders2, items |-> li.items, ships |-> sh.ships,
              raised |-> "no", assigned |-> acc.assigned,
              summary |-> [acc.summary EXCEPT !.orders_upserted = Len(acc.orders_payload),
                                              !.order_items_upserted = li.count,
                                              !.shipments_upserted = sh.count]]

\* the upserts phase 2 makes: one per order, per line and per shipment
UpsertCount(acc) ==
    Len(acc.orders_payload) + Len(acc.order_items_payload) + Len(acc.shipments_payload)

\* the first n of a sequence, nothing when n is not positive
FirstN(seq, n) == IF n <= 0 THEN <<>> ELSE SubSeq(seq, 1, IF n < Len(seq) THEN n ELSE Len(seq))

\* phase 2 stopped after its first n upserts
import_orders_prefix(orders, items, ships, file, n) ==
    LET acc == Phase1[file]
        li  == UpsertItems(items,
                           FirstN(ItemsInUpsertOrder(acc, 1), n - Len(acc.orders_payload)),
                           1, 0)
    IN  [orders |-> UpsertOrders(orders,
                                 [acc EXCEPT !.orders_payload = FirstN(@, n)], 1),
         items  |-> li.items,
         ships  |-> UpsertShipments(ships,
                        FirstN(acc.shipments_payload,
                               n - Len(acc.orders_payload) - Len(acc.order_items_payload)),
                        1, 0).ships,
         raised |-> li.raised]

(***************************************************************************)
(* State machine.                                                          *)
(***************************************************************************)
NoOp == [op |-> "init", arg |-> <<>>, result |-> <<>>, repeat |-> FALSE]

Init ==
    /\ inventory_items = <<>>
    /\ sales_orders = <<>>
    /\ sales_order_items = <<>>
    /\ shipments = <<>>
    /\ edit_log = <<>>
    /\ lastOp = NoOp

UpsertInventoryItemFromFeed ==
    \E record \in InventoryFeedRecords, timestamp \in Timestamps :
        \E r \in {upsert_inventory_item_from_feed(inventory_items, record, timestamp)} :
            /\ inventory_items' = r.items
            /\ lastOp' = [op |-> "upsert_inventory_item_from_feed",
                          arg |-> [item_number |-> Get(record, "item_number"),
                                   record |-> record, timestamp |-> timestamp],
                          result |-> r.result, repeat |-> FALSE]
            /\ UNCHANGED <<sales_orders, sales_order_items, shipments, edit_log>>

UpdateInventoryItemUserFields ==
    \E item_number \in ItemNumbers, updates \in InventoryUpdates, edited_by \in Editors :
        \E r \in {update_inventory_item_user_fields(inventory_items, edit_log,
                                                   item_number, updates, edited_by)} :
            /\ Len(r.log) <= MaxLog
            /\ inventory_items' = r.items
            /\ edit_log' = r.log
            /\ lastOp' = [op |-> "update_inventory_item_user_fields",
                          arg |-> [key |-> item_number, updates |-> updates],
                          result |-> r.result, repeat |-> FALSE]
            /\ UNCHANGED <<sales_orders, sales_order_items, shipments>>

ImportInventoryFromCsv ==
    \E file \in 1..Len(InventoryFiles), timestamp \in Timestamps :
        \E r \in {import_inventory_from_csv(inventory_items, InventoryFileLayout[file],
                                             InventoryFiles[file], timestamp)} :
            /\ inventory_items' = r.items
            /\ lastOp' = [op |-> "import_inventory_from_csv",
                          arg |-> [file |-> file, failing |-> {}],
                          result |-> [raised |-> r.raised, summary |-> r.summary],
                          repeat |-> (lastOp.op = "import_inventory_from_csv"
                                      /\ lastOp.arg.file = file),
                          retry |-> IF lastOp.op = "interrupted import_inventory_from_csv"
                                       /\ lastOp.arg.file = file
                                    THEN lastOp.arg.upserts ELSE -1]
            /\ UNCHANGED <<sales_orders, sales_order_items, shipments, edit_log>>

\* import_inventory_from_csv while the upserts of some rows raise
ImportInventoryFromCsvWithFailures ==
    \E file \in 1..Len(InventoryFiles), timestamp \in Timestamps :
        \E failing \in SUBSET (1..Len(InventoryFiles[file])) \ {{}} :
            \E r \in {import_inventory_with_failures(inventory_items,
                           InventoryFileLayout[file], InventoryFiles[file],
                           timestamp, failing)} :
                /\ inventory_items' = r.items
                /\ lastOp' = [op |-> "import_inventory_from_csv",
                              arg |-> [file |-> file, failing |-> failing],
                              result |-> [raised |-> r.raised, summary |-> r.summary],
                              repeat |-> FALSE,
                              retry |-> -1]
                /\ UNCHANGED <<sales_orders, sales_order_items, shipments, edit_log>>

UpsertSalesOrderItemFromFeed ==
    \E record \in OrderItemFeedRecords :
        \E r \in {upsert_sales_order_item_from_feed(sales_order_items, record)} :
            /\ sales_order_items' = r.items
            /\ lastOp' = [op |-> "upsert_sales_order_item_from_feed",
                          arg |-> [record |-> record, id |-> r.id],
                          result |-> r.result, repeat |-> FALSE]
            /\ UNCHANGED <<inventory_items, sales_orders, shipments, edit_log>>

UpdateSalesOrderItemUserFields ==
    \E order_item_id \in OrderItemIds, updates \in OrderItemUpdates, edited_by \in Editors :
        \E r \in {update_sales_order_item_user_fields(sales_order_items, edit_log,
                                                     order_item_id, updates, edited_by)} :
            /\ Len(r.log) <= MaxLog
            /\ sales_order_items' = r.items
            /\ edit_log' = r.log
            /\ lastOp' = [op |-> "update_sales_order_item_user_fields",
                          arg |-> [key |-> order_item_id, updates |-> updates],
                          result |-> r.result, repeat |-> FALSE]
            /\ UNCHANGED <<inventory_items, sales_orders, shipments>>

\* import_orders_from_csv(db, path) for the path of one file
ImportOrdersFile(file) ==
    \E r \in {import_orders_from_csv(sales_orders, sales_order_items, shipments, file)} :
        /\ sales_orders' = r.orders
        /\ sales_order_items' = r.items
        /\ shipments' = r.ships
        /\ lastOp' = [op |-> "import_orders_from_csv",
                      arg |-> [file |-> file],
                      result |-> [raised |-> r.raised, summary |-> r.summary,
                                  assigned |-> r.assigned],
                      repeat |-> (lastOp.op = "import_orders_from_csv"
                                  /\ lastOp.arg.file = file),
                      retry |-> IF lastOp.op = "interrupted import_orders_from_csv"
                                   /\ lastOp.arg.file = file
                                THEN lastOp.arg.upserts ELSE -1]
        /\ UNCHANGED <<inventory_items, edit_log>>

\* the import of a file in which no two rows of an order share an id
ImportOrdersFromCsv ==
    \E file \in (1..Len(OrderFiles)) \ {RepeatedIdsFile} : ImportOrdersFile(file)

\* the import of the file with repeated ids
ImportRepeatedIdsFromCsv == ImportOrdersFile(RepeatedIdsFile)

UpsertSalesOrderFromFeed ==
    \E record \in OrderFeedRecords :
        \E r \in {upsert_sales_order_from_feed(sales_orders, record)} :
            /\ sales_orders' = r.orders
            /\ lastOp' = [op |-> "upsert_sales_order_from_feed",
                          arg |-> [record |-> record],
                          result |-> r.result, repeat |-> FALSE]
            /\ UNCHANGED <<inventory_items, sales_order_items, shipments, edit_log>>

UpsertShipmentFromFeed ==
    \E record \in ShipmentFeedRecords :
        \E r \in {upsert_shipment_from_feed(shipments, record)} :
            /\ shipments' = r.ships
            /\ lastOp' = [op |-> "upsert_shipment_from_feed",
                          arg |-> [record |-> record],
                          result |-> r.result, repeat |-> FALSE]
            /\ UNCHANGED <<inventory_items, sales_orders, sales_order_items, edit_log>>

\* import_inventory_from_csv cut short after it has handled the first rows
\* of the file: the upserts of those rows are applied, nothing else is.
\* lastOp keeps what the uninterrupted run would have left
InterruptedImportInventoryFromCsv ==
    \E file \in 1..Len(InventoryFiles), timestamp \in Timestamps :
        /\ OpenInventoryCsv(InventoryFileLayout[file]) = "no"
        /\ \E n \in 0..(Len(InventoryFiles[file]) - 1) :
              \E r \in {import_inventory_from_csv(inventory_items, InventoryFileLayout[file],
                                                   SubSeq(InventoryFiles[file], 1, n),
                                                   timestamp)} :
                  /\ inventory_items' = r.items
                  /\ lastOp' = [op |-> "interrupted import_inventory_from_csv",
                                arg |-> [file |-> file, upserts |-> r.summary.upserts],
                                result |-> [uninterrupted |->
                                    import_inventory_from_csv(inventory_items,
                                        InventoryFileLayout[file], InventoryFiles[file],
                                        timestamp).items],
                                repeat |-> FALSE]
                  /\ UNCHANGED <<sales_orders, sales_order_items, shipments, edit_log>>

\* import_orders_from_csv cut short in phase 2 after the first n of its
\* upserts (orders, then lines, then shipments)
InterruptedImportOrdersFromCsv ==
    \E file \in (1..Len(OrderFiles)) \ {RepeatedIdsFile} :
        /\ OpenOrdersCsv(OrderFileLayout[file]) = "no"
        /\ \E n \in 0..(UpsertCount(Phase1[file]) - 1) :
              \E r \in {import_orders_prefix(sales_orders, sales_order_items, shipments,
                                              file, n)} :
                  /\ r.raised = "no"
                  /\ sales_orders' = r.orders
                  /\ sales_order_items' = r.items
                  /\ shipments' = r.ships
                  /\ lastOp' = [op |-> "interrupted import_orders_from_csv",
                                arg |-> [file |-> file, upserts |-> n],
                                result |-> [uninterrupted |->
                                    import_orders_from_csv(sales_orders, sales_order_items,
                                                           shipments, file)],
                                repeat |-> FALSE]
                  /\ UNCHANGED <<inventory_items, edit_log>>

(***************************************************************************)
(* The Reports tab's import handler and the Database methods it looks up.  *)
(***************************************************************************)

\* the methods class Database defines
DatabaseMethods ==
    {"__init__", "_row_to_dict", "_rows_to_dicts", "create_tables",
     "_ensure_inventory_columns", "_ensure_min_inventory_orders_schema",
     "_safe_int", "_parse_float", "_parse_date_iso", "_resolve_mapped_value",
     "get_inventory_items", "get_inventory_item", "get_expenses",
     "get_sold_items", "get_total_deductible_expenses", "get_inventory_value",
     "get_total_revenue", "get_total_profit", "get_expense_breakdown",
     "get_sales", "add_inventory_item", "update_inventory_item",
     "upsert_inventory_item", "delete_inventory_item", "add_expense",
     "update_expense", "delete_expense", "mark_item_as_sold",
     "mark_item_as_listed", "get_items_for_drafts", "get_condition_id_mapping",
     "use_min_inventory_orders", "get_inventory_items_v2",
     "get_inventory_item_v2", "list_inventory_categories",
     "get_sales_orders_v2", "get_sales_order_v2", "get_sales_order_items_v2",
     "get_sales_order_item_v2", "get_shipments_for_order", "_append_edit_log",
     "update_inventory_item_user_fields", "update_sales_order_item_user_fields",
     "upsert_inventory_item_from_feed", "upsert_sales_order_from_feed",
     "upsert_sales_order_item_from_feed", "upsert_shipment_from_feed",
     "log_error", "clear_error_logs", "close"}

\* hasattr(self.db, name)
HasAttr_Always(name) == TRUE

HasAttr(name) == name \in DatabaseMethods

\* self.db.<name>(...): the attribute lookup comes first, and a name the class
\* does not define raises AttributeError before anything is called
CallDatabase(name) ==
    IF name \in DatabaseMethods
    THEN [raised |-> "no", value |-> [method |-> name]]
    ELSE [raised |-> "AttributeError", value |-> None]

\* the header rows of the CSV files a caller may pick: an active-listings
\* export, an orders export, an orders export with further columns, and a
\* file of another shape
ReportCsvHeaders ==
    << {"Item Number", "Title", "Custom label (SKU)"},
       {"Order Number", "Item Title", "Sold For"},
       {"Order Number", "Item Title", "Sold For", "Sold Date", "Quantity",
        "Custom Label"},
       {"Name", "Amount"} >>

\* the report_type argument of a call: absent, or given by the caller
ReportTypeArgs == {"None", "active_listings", "orders"}

\* what QMessageBox shows at the end of the handler
MessageBox(kind, title) == [box |-> kind, title |-> title]

\* execute_import with the path field holding `path` (0: the field is
\* empty).  The answer is the message box shown and whether
\* import_normalized was called.
execute_import(path) ==
    IF path = 0
    THEN [shown |-> MessageBox("warning", "Choose file"), imported |-> FALSE]
    ELSE IF ~(HasAttr("normalize_csv_file") /\ HasAttr("import_normalized"))
    THEN [shown |-> MessageBox("warning", "Not available"), imported |-> FALSE]
    ELSE LET res == CallDatabase("normalize_csv_file")
         IN IF res.raised # "no"
            THEN [shown |-> MessageBox("critical", "Import failed"),
                  imported |-> FALSE]
            ELSE IF ~Truthy(res.value.report_type)
            THEN [shown |-> MessageBox("warning", "Unknown type"),
                  imported |-> FALSE]
            ELSE IF res.value.normalized_rows = <<>>
            THEN [shown |-> MessageBox("warning", "No rows"), imported |-> FALSE]
            ELSE LET stats == CallDatabase("import_normalized")
                 IN IF stats.raised # "no"
                    THEN [shown |-> MessageBox("critical", "Import failed"),
                          imported |-> FALSE]
                    ELSE [shown |-> MessageBox("information", "Done"),
                          imported |-> TRUE]

\* self.db.normalize_csv_file(path) or (path, report_type=...), as the
\* database tests call it
NormalizeCsvFile ==
    \E path \in 1..Len(ReportCsvHeaders), report_type \in ReportTypeArgs :
        \E r \in {CallDatabase("normalize_csv_file")} :
            /\ lastOp' = [op |-> "normalize_csv_file",
                          arg |-> [path |-> path, report_type |-> report_type],
                          result |-> [raised |-> r.raised,
                                      report_type |->
                                          IF r.raised = "no"
                                          THEN r.value.report_type
                                          ELSE "None"]]
            /\ UNCHANGED <<inventory_items, sales_orders, sales_order_items,
                           shipments, edit_log>>

\* the Import button of the Reports tab.  The handler's only statement that
\* writes a table is the call of import_normalized, a name class Database
\* does not define, so no path through it changes a table.
ExecuteImport ==
    \E path \in 0..Len(ReportCsvHeaders) :
        \E r \in {execute_import(path)} :
            /\ lastOp' = [op |-> "execute_import",
                          arg |-> [path |-> path],
                          result |-> r]
            /\ UNCHANGED <<inventory_items, sales_orders, sales_order_items,
                           shipments, edit_log>>

NextOrders ==
    \/ UpsertSalesOrderItemFromFeed
    \/ UpdateSalesOrderItemUserFields
    \/ ImportOrdersFromCsv

SpecOrders == Init /\ [][NextOrders]_vars

NextInventory ==
    \/ UpsertInventoryItemFromFeed
    \/ UpdateInventoryItemUserFields
    \/ ImportInventoryFromCsv

SpecInventory == Init /\ [][NextInventory]_vars

\* the user-edit paths of both tables, over rows the feed upserts created
NextEdits ==
    \/ UpsertInventoryItemFromFeed
    \/ UpdateInventoryItemUserFields
    \/ UpsertSalesOrderItemFromFeed
    \/ UpdateSalesOrderItemUserFields

SpecEdits == Init /\ [][NextEdits]_vars

\* the four feed upserts called directly, in any order
NextUpserts ==
    \/ UpsertInventoryItemFromFeed
    \/ UpsertSalesOrderFromFeed
    \/ UpsertSalesOrderItemFromFeed
    \/ UpsertShipmentFromFeed

SpecUpserts == Init /\ [][NextUpserts]_vars

\* inventory imports, with and without failing statements
NextInventoryImports ==
    \/ ImportInventoryFromCsv
    \/ ImportInventoryFromCsvWithFailures

SpecInventoryImports == Init /\ [][NextInventoryImports]_vars

\* orders imports of every file, the one with repeated ids included
NextOrderLines ==
    \/ ImportOrdersFromCsv
    \/ ImportRepeatedIdsFromCsv

SpecOrderLines == Init /\ [][NextOrderLines]_vars

\* shipments written by the orders import and by direct upserts
NextShipments ==
    \/ UpsertShipmentFromFeed
    \/ ImportOrdersFromCsv

SpecShipments == Init /\ [][NextShipments]_vars

\* the two importers run over the files and paths, in any order
NextImports ==
    \/ ImportInventoryFromCsv
    \/ ImportOrdersFromCsv

SpecImports == Init /\ [][NextImports]_vars

\* the Reports tab's import and the database tests' normalisation calls,
\* over tables the two importers have filled
NextReports ==
    \/ NormalizeCsvFile
    \/ ExecuteImport
    \/ ImportInventoryFromCsv
    \/ ImportOrdersFromCsv

SpecReports == Init /\ [][NextReports]_vars

\* imports, imports cut short, and the retries that follow them.  The
\* inventory importer reads and writes inventory_items only and the orders
\* importer the three order tables only, so a behaviour follows one of the
\* two importers: the other one's tables stay as Init left them
NextRetry ==
    \/ (sales_orders = <<>> /\ ImportInventoryFromCsv)
    \/ (sales_orders = <<>> /\ InterruptedImportInventoryFromCsv)
    \/ (inventory_items = <<>> /\ ImportOrdersFromCsv)
    \/ (inventory_items = <<>> /\ InterruptedImportOrdersFromCsv)

SpecRetry == Init /\ [][NextRetry]_vars

(***************************************************************************)
(* Properties.                                                             *)
(***************************************************************************)
NonEmpty(v) == v # None /\ v # <<>>

NullIfEmpty(v) == IF v = <<>> THEN None ELSE v

InventoryFeedOps == {"upsert_inventory_item_from_feed", "import_inventory_from_csv"}

OrderFeedOps == {"upsert_sales_order_item_from_feed", "import_orders_from_csv"}

\* C1: a feed upsert or inventory import never changes a user-owned field of
\* an inventory item (custom_sku, ebay_category1_name, ebay_category1_number)
\* whose stored value was non-empty: the row is still there with the same
\* value, so a feed changes such a field only when it was empty/null.
C1_FeedKeepsNonEmptyUserFields ==
    [][lastOp'.op \in InventoryFeedOps =>
         \A i \in 1..Len(inventory_items) : \A f \in allowed :
            NonEmpty(inventory_items[i][f]) =>
               LET after == RowsWhere(inventory_items', "item_number",
                                      inventory_items[i].item_number)
               IN  /\ after # {}
                   /\ \A j \in after : inventory_items'[j][f] = inventory_items[i][f]]_vars

\* the import of the file whose second row carries SKU F and category C has
\* just run over item 1, which holds the user's SKU U and category T
C1_Witness ==
    /\ lastOp.op = "import_inventory_from_csv"
    /\ lastOp.arg.file = 1
    /\ lastOp.result.summary.upserts = 2
    /\ \E i \in 1..Len(inventory_items) :
          /\ inventory_items[i].item_number = <<"1">>
          /\ inventory_items[i].custom_sku = <<"U">>
          /\ inventory_items[i].ebay_category1_name = <<"T">>

\* the item_numbers of the rows of an inventory file that are not skipped
FileItemNumbers(rows) ==
    {StrStrip(rows[r]["item_number"]) :
        r \in {q \in 1..Len(rows) : StrStrip(rows[q]["item_number"]) # <<>>
                                     /\ StrStrip(rows[q]["title"]) # <<>>}}

\* C2: importing the same inventory file a second time in a row leaves
\* exactly one row per distinct item_number of the file, and every field of
\* every row except last_sync_at as the first run left it.
C2_InventoryImportIdempotent ==
    [][(/\ lastOp.op = "import_inventory_from_csv"
        /\ lastOp'.op = "import_inventory_from_csv"
        /\ lastOp'.arg.file = lastOp.arg.file) =>
         /\ \A n \in FileItemNumbers(InventoryFiles[lastOp'.arg.file]) :
               Cardinality(RowsWhere(inventory_items', "item_number", n)) = 1
         /\ Len(inventory_items') = Len(inventory_items)
         /\ \A i \in 1..Len(inventory_items) :
               \A f \in DOMAIN inventory_items[i] \ {"last_sync_at"} :
                  inventory_items'[i][f] = inventory_items[i][f]]_vars

\* the file with one item_number on two rows has been imported twice in a row
C2_Witness ==
    /\ lastOp.op = "import_inventory_from_csv"
    /\ lastOp.repeat
    /\ lastOp.arg.file = 1
    /\ lastOp.result.summary.upserts = 2
    /\ Cardinality(RowsWhere(inventory_items, "item_number", <<"1">>)) = 1

\* C3: a feed upsert or orders import never changes the custom_sku of an
\* order line whose stored custom_sku was non-empty, whatever SKU the feed
\* carries; the feed's SKU is stored only over an empty/null one.
C3_FeedKeepsLineSku ==
    [][lastOp'.op \in OrderFeedOps =>
         \A i \in 1..Len(sales_order_items) :
            NonEmpty(sales_order_items[i].custom_sku) =>
               LET after == RowsWhere(sales_order_items', "id", sales_order_items[i].id)
               IN  /\ after # {}
                   /\ \A j \in after :
                         /\ sales_order_items'[j].order_number = sales_order_items[i].order_number
                         /\ sales_order_items'[j].transaction_id = sales_order_items[i].transaction_id
                         /\ sales_order_items'[j].custom_sku = sales_order_items[i].custom_sku]_vars

\* the file whose row for (A, 1) carries SKU S has just been imported over
\* that line holding the user's SKU U
C3_Witness ==
    /\ lastOp.op = "import_orders_from_csv"
    /\ lastOp.arg.file = 1
    /\ lastOp.result.raised = "no"
    /\ \E i \in 1..Len(sales_order_items) :
          /\ sales_order_items[i].order_number = <<"A">>
          /\ sales_order_items[i].transaction_id = <<"1">>
          /\ sales_order_items[i].custom_sku = <<"U">>

\* C4: importing the same orders file a second time in a row leaves
\* sales_orders, sales_order_items and shipments exactly as the first run
\* left them: no row added, every field (meta_json included) the same.
C4_OrdersImportIdempotent ==
    [][(/\ lastOp.op = "import_orders_from_csv"
        /\ lastOp'.op = "import_orders_from_csv"
        /\ lastOp'.arg.file = lastOp.arg.file) =>
         /\ sales_orders' = sales_orders
         /\ sales_order_items' = sales_order_items
         /\ shipments' = shipments]_vars

\* the two-row file of order A has been imported twice in a row, and the
\* order carries an aggregated shipping amount
C4_Witness ==
    /\ lastOp.op = "import_orders_from_csv"
    /\ lastOp.repeat
    /\ lastOp.arg.file = 1
    /\ lastOp.result.raised = "no"
    /\ \E i \in 1..Len(sales_orders) :
          /\ sales_orders[i]["order_number"] = <<"A">>
          /\ sales_orders[i]["meta_json"] = << <<"shipping_amount", <<"5">>>> >>
    /\ Len(sales_order_items) >= 2
    /\ Len(shipments) = 1

\* the value of a member of a meta_json object, None when it has none
JsonValue(json, key) ==
    IF json = None \/ ~\E i \in 1..Len(json) : json[i][1] = key THEN None
    ELSE json[CHOOSE i \in 1..Len(json) : json[i][1] = key][2]

\* the rows of a file that belong to an order
OrderRows(rows, order_number) ==
    {r \in 1..Len(rows) : StrStrip(rows[r]["order_number"]) = order_number}

\* the sum of a field's amounts over the rows k.. of an order
RECURSIVE OrderFieldSum(_, _, _, _)
OrderFieldSum(rows, order_number, field, k) ==
    IF k > Len(rows) THEN 0
    ELSE (IF k \in OrderRows(rows, order_number)
             /\ _parse_decimal(Get(rows[k], field)) # None
          THEN _parse_decimal(Get(rows[k], field))[2] ELSE 0)
         + OrderFieldSum(rows, order_number, field, k + 1)

\* C5: after an orders import that returned, for every order of the file and
\* every aggregated meta field with an amount on some row of the order, the
\* value stored in the order's meta_json is the sum of the field's amounts
\* over all rows of that order in the file.
C5_MetaIsRunningSum ==
    (lastOp.op = "import_orders_from_csv" /\ lastOp.result.raised = "no") =>
        LET rows == OrderFiles[lastOp.arg.file]
        IN  \A r \in 1..Len(rows) : \A i \in 1..Len(sales_orders) :
               sales_orders[i]["order_number"] = StrStrip(rows[r]["order_number"]) =>
                  \A m \in 1..Len(META_FIELDS) :
                     (\E q \in OrderRows(rows, sales_orders[i]["order_number"]) :
                         _parse_decimal(Get(rows[q], META_FIELDS[m])) # None)
                     => _parse_decimal(JsonValue(sales_orders[i]["meta_json"], META_FIELDS[m]))
                        = Num(OrderFieldSum(rows, sales_orders[i]["order_number"],
                                            META_FIELDS[m], 1))

\* the order_numbers of the rows of an orders file that are not skipped
FileOrderNumbers(rows) ==
    {StrStrip(rows[r]["order_number"]) : r \in 1..Len(rows)} \ {<<>>}

\* the order_numbers held by a sales_orders table
StoredOrderNumbers(orders) == {orders[i]["order_number"] : i \in 1..Len(orders)}

\* C6: sales_orders holds exactly one row per distinct order_number ever
\* imported: no order_number is on two rows, a row once stored stays, an
\* import leaves one row for every order_number of its file however many
\* rows share it, and it adds a row only for an order_number not yet stored.
C6_OneRowPerOrderNumber ==
    [][/\ \A i, j \in 1..Len(sales_orders') :
             sales_orders'[i]["order_number"] = sales_orders'[j]["order_number"] => i = j
       /\ StoredOrderNumbers(sales_orders) \subseteq StoredOrderNumbers(sales_orders')
       /\ lastOp'.op = "import_orders_from_csv" =>
             /\ StoredOrderNumbers(sales_orders') =
                   StoredOrderNumbers(sales_orders)
                      \cup FileOrderNumbers(OrderFiles[lastOp'.arg.file])
             /\ Len(sales_orders') = Len(sales_orders)
                   + Cardinality(FileOrderNumbers(OrderFiles[lastOp'.arg.file])
                                    \ StoredOrderNumbers(sales_orders))
       /\ lastOp'.op # "import_orders_from_csv" => sales_orders' = sales_orders]_vars

\* the file with orders B and A has been imported over a table that already
\* held order A from the two-row file: A keeps the first row, B is added
C6_Witness ==
    /\ lastOp.op = "import_orders_from_csv"
    /\ lastOp.arg.file = 2
    /\ Len(sales_orders) = 2
    /\ sales_orders[1]["order_number"] = <<"A">>
    /\ sales_orders[1]["buyer_name"] = <<"J">>
    /\ sales_orders[2]["order_number"] = <<"B">>
    /\ sales_orders[2]["buyer_name"] = <<"K">>

\* a cell that holds nothing but blanks
BlankCell(cell) == \A i \in 1..Len(cell) : cell[i] = " "

\* 'line-NNN' for a position below ten
LineNnn(position) == <<"l", "i", "n", "e", "-", "0", "0", Digits[position + 1]>>

\* the 1-based position of row r among the rows of its order
PositionInOrder(rows, r) ==
    Cardinality({q \in OrderRows(rows, StrStrip(rows[r]["order_number"])) : q <= r})

\* C7: in an import run every non-skipped row with a blank transaction-id
\* cell is given 'line-NNN', NNN the 1-based position of the row among the
\* non-skipped rows of its order_number; a row with a transaction id keeps
\* it (trimmed); two blank rows of one order get different ids; and when the
\* run returns, every given id is the transaction_id of a stored line.
C7_SyntheticLineIds ==
    lastOp.op = "import_orders_from_csv" =>
        LET rows     == OrderFiles[lastOp.arg.file]
            assigned == lastOp.result.assigned
        IN  /\ Len(assigned) = Len(rows)
            /\ \A r \in 1..Len(rows) :
                  IF BlankCell(rows[r]["order_number"])
                  THEN assigned[r] = <<None, None>>
                  ELSE /\ assigned[r][1] = StrStrip(rows[r]["order_number"])
                       /\ assigned[r][2] =
                             IF BlankCell(rows[r]["transaction_id"])
                             THEN LineNnn(PositionInOrder(rows, r))
                             ELSE StrStrip(rows[r]["transaction_id"])
                       /\ lastOp.result.raised = "no" =>
                             \E i \in 1..Len(sales_order_items) :
                                /\ sales_order_items[i].order_number = assigned[r][1]
                                /\ sales_order_items[i].transaction_id = assigned[r][2]
            /\ \A r, q \in 1..Len(rows) :
                  (/\ r # q
                   /\ ~BlankCell(rows[r]["order_number"])
                   /\ StrStrip(rows[r]["order_number"]) = StrStrip(rows[q]["order_number"])
                   /\ BlankCell(rows[r]["transaction_id"])
                   /\ BlankCell(rows[q]["transaction_id"]))
                  => assigned[r][2] # assigned[q][2]

\* the file with two blank-id rows of order B around a row of order A has
\* been imported: the rows of B are line-001 and line-002, both stored
C7_Witness ==
    /\ lastOp.op = "import_orders_from_csv"
    /\ lastOp.arg.file = 2
    /\ lastOp.result.raised = "no"
    /\ lastOp.result.assigned[2] = <<<<"B">>, <<"l", "i", "n", "e", "-", "0", "0", "1">>>>
    /\ lastOp.result.assigned[3] = <<<<"A">>, <<"1">>>>
    /\ lastOp.result.assigned[4] = <<<<"B">>, <<"l", "i", "n", "e", "-", "0", "0", "2">>>>
    /\ \E i \in 1..Len(sales_order_items) :
          /\ sales_order_items[i].order_number = <<"B">>
          /\ sales_order_items[i].transaction_id = <<"l", "i", "n", "e", "-", "0", "0", "2">>

\* the rows of a sales_order_items table with a key, NULL equal to NULL
LinesWithKey(items, order_number, transaction_id) ==
    {i \in 1..Len(items) : /\ items[i].order_number = order_number
                           /\ items[i].transaction_id = transaction_id}

\* C8: no two sales_order_items rows have the same (order_number,
\* transaction_id), two NULL transaction_ids counting as equal; an upsert
\* whose key matches a stored row inserts nothing and leaves the row its id;
\* importing a file again right after its import returned adds no line.
C8_OneRowPerLine ==
    [][/\ \A i, j \in 1..Len(sales_order_items') :
             (/\ sales_order_items'[i].order_number = sales_order_items'[j].order_number
              /\ sales_order_items'[i].transaction_id = sales_order_items'[j].transaction_id)
             => i = j
       /\ lastOp'.op = "upsert_sales_order_item_from_feed" =>
             (LinesWithKey(sales_order_items, Get(lastOp'.arg.record, "order_number"),
                           Get(lastOp'.arg.record, "transaction_id")) # {}
              => /\ Len(sales_order_items') = Len(sales_order_items)
                 /\ lastOp'.result # "True"
                 /\ \A i \in 1..Len(sales_order_items) :
                       sales_order_items'[i].id = sales_order_items[i].id)
       /\ (/\ lastOp'.op = "import_orders_from_csv"
           /\ lastOp'.repeat
           /\ lastOp.result.raised = "no")
          => Len(sales_order_items') = Len(sales_order_items)]_vars

\* a line without transaction id has been upserted a second time: the call
\* updated the stored line, which is still the only one with that key
C8_Witness ==
    /\ lastOp.op = "upsert_sales_order_item_from_feed"
    /\ Get(lastOp.arg.record, "transaction_id") = None
    /\ lastOp.result = "False"
    /\ Cardinality(LinesWithKey(sales_order_items, <<"A">>, None)) = 1
    /\ Len(sales_order_items) >= 2

\* the fields an update map supplies
Supplied(updates) == {updates[j][1] : j \in 1..Len(updates)}

\* every supplied value equals the stored one, empty string equal to null
AllEqualStored(row, updates) ==
    \A j \in 1..Len(updates) :
       /\ updates[j][1] \in DOMAIN row
       /\ NullIfEmpty(updates[j][2]) = NullIfEmpty(row[updates[j][1]])

\* a user update that has to be a no-op: no such row, an empty update map,
\* or values that all equal the stored ones
NothingToChange(table, keycol, key, updates) ==
    \/ RowsWhere(table, keycol, key) = {}
    \/ updates = <<>>
    \/ \A i \in RowsWhere(table, keycol, key) : AllEqualStored(table[i], updates)

\* C9: a user update of an inventory item or an order line whose supplied
\* values all equal the stored values (empty string equal to null), whose
\* item does not exist, or whose update map is empty, writes no Edit Log row,
\* leaves the table unchanged and returns false.
C9_EqualValuesAreNoOp ==
    [][/\ lastOp'.op = "update_inventory_item_user_fields" =>
             (NothingToChange(inventory_items, "item_number",
                              lastOp'.arg.key, lastOp'.arg.updates)
              => /\ edit_log' = edit_log
                 /\ inventory_items' = inventory_items
                 /\ lastOp'.result = "False")
       /\ lastOp'.op = "update_sales_order_item_user_fields" =>
             (NothingToChange(sales_order_items, "id",
                              lastOp'.arg.key, lastOp'.arg.updates)
              => /\ edit_log' = edit_log
                 /\ sales_order_items' = sales_order_items
                 /\ lastOp'.result = "False")]_vars

\* what the Edit Log records as the old value of a stored value
LoggedOld(stored, emptyAsNull) == IF emptyAsNull THEN NullIfEmpty(stored) ELSE stored

\* the effect of one user update on a table and the Edit Log: only supplied
\* user-owned fields of the addressed row change, the log grows by one entry
\* per changed field, each naming the entity, the field, the value before
\* and the value after, and the result is true exactly when a field changed
UpdateLogged(before, after, log, log2, keycol, key, entity_type, entity_pk,
             fields, updates, result, emptyAsNull) ==
    /\ Len(after) = Len(before)
    /\ Len(log2) >= Len(log)
    /\ SubSeq(log2, 1, Len(log)) = log
    /\ \A i \in 1..Len(before) : i \notin RowsWhere(before, keycol, key) => after[i] = before[i]
    /\ RowsWhere(before, keycol, key) = {} => (log2 = log /\ result = "False")
    /\ \A i \in RowsWhere(before, keycol, key) :
          LET changed == {f \in DOMAIN before[i] : after[i][f] # before[i][f]}
          IN  /\ changed \subseteq (fields \cap Supplied(updates))
              /\ Len(log2) = Len(log) + Cardinality(changed)
              /\ \A f \in changed : \E n \in (Len(log) + 1)..Len(log2) : log2[n].field = f
              /\ \A n \in (Len(log) + 1)..Len(log2) :
                    /\ log2[n].field \in changed
                    /\ log2[n].entity_type = entity_type
                    /\ log2[n].entity_pk = entity_pk
                    /\ log2[n].old_value = LoggedOld(before[i][log2[n].field], emptyAsNull)
                    /\ log2[n].new_value = after[i][log2[n].field]
              /\ (result = "True") <=> (changed # {})

ChangeLogged(log, log2, entity_type, entity_pk, field, old_value, new_value) ==
    \E n \in (Len(log) + 1)..Len(log2) :
       /\ log2[n].entity_type = entity_type
       /\ log2[n].entity_pk = entity_pk
       /\ log2[n].field = field
       /\ log2[n].old_value = NullIfEmpty(old_value)
       /\ log2[n].new_value = new_value

\* C11: every change of the stored value of a user-owned field of a stored
\* row, by a user update or by a feed upsert that fills an empty field, is
\* recorded in the Edit Log with the old and the new value.
C11_EveryUserFieldChangeLogged ==
    [][/\ \A i \in 1..Len(inventory_items) : \A j \in 1..Len(inventory_items') :
             inventory_items'[j].item_number = inventory_items[i].item_number =>
                \A f \in allowed :
                   inventory_items'[j][f] # inventory_items[i][f] =>
                      ChangeLogged(edit_log, edit_log', InventoryItemEntity,
                                   inventory_items[i].item_number, f,
                                   inventory_items[i][f], inventory_items'[j][f])
       /\ \A i \in 1..Len(sales_order_items) : \A j \in 1..Len(sales_order_items') :
             sales_order_items'[j].id = sales_order_items[i].id =>
                (sales_order_items'[j].custom_sku # sales_order_items[i].custom_sku =>
                    ChangeLogged(edit_log, edit_log', SalesOrderItemEntity,
                                 IdText(sales_order_items[i].id), "custom_sku",
                                 sales_order_items[i].custom_sku,
                                 sales_order_items'[j].custom_sku))]_vars

\* C12: after every upsert_inventory_item_from_feed that returned, on the
\* insert path and on the update path, the item's row has status 'active'
\* and last_sync_at equal to the supplied timestamp, whatever status the
\* record carries.
C12_UpsertForcesActive ==
    (lastOp.op = "upsert_inventory_item_from_feed" /\ lastOp.result \in {"True", "False"}) =>
        /\ RowsWhere(inventory_items, "item_number", lastOp.arg.item_number) # {}
        /\ \A i \in RowsWhere(inventory_items, "item_number", lastOp.arg.item_number) :
              /\ inventory_items[i].status = <<"a", "c", "t", "i", "v", "e">>
              /\ inventory_items[i].last_sync_at = lastOp.arg.timestamp

\* C13: upsert_inventory_item_from_feed with a record whose item_number is
\* missing or empty raises the validation error (ValueError) and leaves
\* inventory_items and edit_log unchanged.
C13_ItemNumberRequired ==
    [][(/\ lastOp'.op = "upsert_inventory_item_from_feed"
        /\ lastOp'.arg.item_number \in {None, <<>>})
       => /\ lastOp'.result = "ValueError"
          /\ inventory_items' = inventory_items
          /\ edit_log' = edit_log]_vars

\* a record without item_number has been refused over a table that holds an
\* item and a log that holds an entry
C13_Witness ==
    /\ lastOp.op = "upsert_inventory_item_from_feed"
    /\ lastOp.arg.item_number = None
    /\ lastOp.result = "ValueError"
    /\ Len(inventory_items) >= 1
    /\ Len(edit_log) >= 1

\* a feed upsert reports 'inserted' exactly when no row had the record's key
\* and 'updated' exactly when one had; the table grows by one row in the
\* first case and keeps its size in the second
ReportsInsertOrUpdate(existed, result, before, after) ==
    /\ result \in {"True", "False"}
    /\ (result = "True") <=> ~existed
    /\ Len(after) = Len(before) + (IF existed THEN 0 ELSE 1)

\* C14: each upsert_*_from_feed called with a record that has its key and
\* its columns reports 'inserted' exactly when no row with the record's key
\* (item_number; order_number; (order_number, transaction_id);
\* tracking_number) existed before the call and 'updated' exactly when one
\* did, the row count growing by one in the first case and staying the same
\* in the second.
C14_InsertUpdateSignal ==
    [][/\ (/\ lastOp'.op = "upsert_inventory_item_from_feed"
           /\ lastOp'.result \in {"True", "False"})
          => ReportsInsertOrUpdate(
                RowsWhere(inventory_items, "item_number", lastOp'.arg.item_number) # {},
                lastOp'.result, inventory_items, inventory_items')
       /\ (/\ lastOp'.op = "upsert_sales_order_from_feed"
           /\ OrderColumns \subseteq DOMAIN lastOp'.arg.record
           /\ NonEmpty(lastOp'.arg.record["order_number"]))
          => ReportsInsertOrUpdate(
                RowsWhere(sales_orders, "order_number",
                          lastOp'.arg.record["order_number"]) # {},
                lastOp'.result, sales_orders, sales_orders')
       /\ (/\ lastOp'.op = "upsert_sales_order_item_from_feed"
           /\ ItemColumns \subseteq DOMAIN lastOp'.arg.record
           /\ NonEmpty(lastOp'.arg.record["order_number"]))
          => ReportsInsertOrUpdate(
                LinesWithKey(sales_order_items, lastOp'.arg.record["order_number"],
                             lastOp'.arg.record["transaction_id"]) # {},
                lastOp'.result, sales_order_items, sales_order_items')
       /\ (/\ lastOp'.op = "upsert_shipment_from_feed"
           /\ ShipmentColumns \subseteq DOMAIN lastOp'.arg.record
           /\ NonEmpty(lastOp'.arg.record["tracking_number"])
           /\ lastOp'.arg.record["order_number"] # None)
          => ReportsInsertOrUpdate(
                RowsWhere(shipments, "tracking_number",
                          lastOp'.arg.record["tracking_number"]) # {},
                lastOp'.result, shipments, shipments')]_vars

\* the rows of a file that have an order number
RowsWithOrderNumber(rows) ==
    SelectSeq(rows, LAMBDA row : ~BlankCell(row["order_number"]))

\* C15: import_orders_from_csv on a file with a header row returns a summary
\* and does not raise; rows_read is the number of data rows, every row
\* without order number is counted in skipped with one warning, and the
\* tables are left as the import of the file without those rows leaves them.
C15_OrdersImportNeverRaises ==
    [][(/\ lastOp'.op = "import_orders_from_csv"
        /\ OrderFileLayout[lastOp'.arg.file].exists
        /\ OrderFileLayout[lastOp'.arg.file].header)
       => LET rows == OrderFiles[lastOp'.arg.file]
              kept == Accumulate(EmptyAccumulator, RowsWithOrderNumber(rows), 1)
          IN  /\ lastOp'.result.raised = "no"
              /\ lastOp'.result.summary.rows_read = Len(rows)
              /\ lastOp'.result.summary.skipped = Len(rows) - Len(RowsWithOrderNumber(rows))
              /\ Len(lastOp'.result.summary.warnings) = lastOp'.result.summary.skipped
              /\ sales_orders' = UpsertOrders(sales_orders, kept, 1)
              /\ sales_order_items' =
                    UpsertItems(sales_order_items, ItemsInUpsertOrder(kept, 1), 1, 0).items
              /\ shipments' = UpsertShipments(shipments, kept.shipments_payload, 1, 0).ships]_vars

\* a path without a file, or with a file that has no header row
NoHeaderRow(layout) == ~layout.exists \/ ~layout.header

\* C16: when the file does not exist or has no header row, each importer
\* fails with an explicit error and leaves every table unchanged.
C16_FileLevelFailure ==
    [][/\ (/\ lastOp'.op = "import_inventory_from_csv"
           /\ NoHeaderRow(InventoryFileLayout[lastOp'.arg.file]))
          => /\ lastOp'.result.raised \in {"FileNotFoundError", "ValueError"}
             /\ UNCHANGED <<inventory_items, sales_orders, sales_order_items,
                            shipments, edit_log>>
       /\ (/\ lastOp'.op = "import_orders_from_csv"
           /\ NoHeaderRow(OrderFileLayout[lastOp'.arg.file]))
          => /\ lastOp'.result.raised \in {"FileNotFoundError", "ValueError"}
             /\ UNCHANGED <<inventory_items, sales_orders, sales_order_items,
                            shipments, edit_log>>]_vars

\* a table without the column last_sync_at
WithoutSync(items) ==
    [i \in 1..Len(items) |-> [f \in DOMAIN items[i] \ {"last_sync_at"} |-> items[i][f]]]

\* C17: when an import was cut short after some of its upserts and the same
\* file is then imported again to completion, inventory_items (ignoring
\* last_sync_at), sales_orders, sales_order_items and shipments are what a
\* single uninterrupted import of the file would have left from the state
\* the interrupted run started in; an orders import that would have
\* completed uninterrupted also completes when retried.
C17_RetryAfterInterruption ==
    [][/\ (/\ lastOp.op = "interrupted import_inventory_from_csv"
           /\ lastOp'.op = "import_inventory_from_csv"
           /\ lastOp'.arg.file = lastOp.arg.file
           /\ lastOp'.result.raised = "no")
          => WithoutSync(inventory_items') = WithoutSync(lastOp.result.uninterrupted)
       /\ (/\ lastOp.op = "interrupted import_orders_from_csv"
           /\ lastOp'.op = "import_orders_from_csv"
           /\ lastOp'.arg.file = lastOp.arg.file
           /\ lastOp.result.uninterrupted.raised = "no")
          => /\ lastOp'.result.raised = "no"
             /\ sales_orders' = lastOp.result.uninterrupted.orders
             /\ sales_order_items' = lastOp.result.uninterrupted.items
             /\ shipments' = lastOp.result.uninterrupted.ships]_vars

\* the file with orders B and A has been imported again after a run that
\* was cut short after four of its six upserts, over tables that held the
\* two-row file of order A
C17_Witness ==
    /\ lastOp.op = "import_orders_from_csv"
    /\ lastOp.arg.file = 2
    /\ lastOp.retry = 4
    /\ lastOp.result.raised = "no"
    /\ Len(sales_orders) = 2
    /\ sales_orders[1]["order_number"] = <<"A">>
    /\ Len(sales_order_items) = 4
    /\ Len(shipments) = 1

\* the two header patterns of the report types
ActiveListingsHeaders == {"Item Number", "Title", "Custom label (SKU)"}

OrdersHeaders == {"Order Number", "Item Title", "Sold For"}

\* C18: a normalize_csv_file call without report type classifies a file
\* whose headers are {Item Number, Title, Custom label (SKU)} as
\* active_listings and a file whose headers include {Order Number, Item
\* Title, Sold For} as orders; a call with a report type answers that type.
C18_ReportTypeDetected ==
    [][lastOp'.op = "normalize_csv_file" =>
          LET headers == ReportCsvHeaders[lastOp'.arg.path]
              given == lastOp'.arg.report_type
              answer == lastOp'.result
          IN /\ answer.raised = "no"
             /\ (given = "None" /\ headers = ActiveListingsHeaders)
                    => answer.report_type = "active_listings"
             /\ (given = "None" /\ OrdersHeaders \subseteq headers)
                    => answer.report_type = "orders"
             /\ given # "None" => answer.report_type = given]_vars

FileTrackingNumbers(rows) ==
    {StrStrip(rows[r]["tracking_number"]) :
        r \in {q \in 1..Len(rows) : ~BlankCell(rows[q]["order_number"])}} \ {<<>>}

\* the last row of a file that carries a tracking number
LastRowWithTracking(rows, tracking_number) ==
    CHOOSE r \in 1..Len(rows) :
        /\ ~BlankCell(rows[r]["order_number"])
        /\ StrStrip(rows[r]["tracking_number"]) = tracking_number
        /\ \A q \in (r + 1)..Len(rows) :
              BlankCell(rows[q]["order_number"])
              \/ StrStrip(rows[q]["tracking_number"]) # tracking_number

\* the columns of shipments an upsert replaces
ShipmentFeedColumns == {"order_number", "shipping_service", "label_cost", "shipped_on_date"}

\* C20: shipments never holds two rows of one tracking_number.  An
\* upsert_shipment_from_feed that returns for a tracking_number already
\* stored answers False and leaves that row, and no other, with the record's
\* order_number, shipping_service, label_cost and shipped_on_date; for a new
\* tracking_number it answers True and adds such a row.  A record whose
\* tracking_number is empty or missing writes nothing and answers None.  An
\* orders import counts in shipments_upserted the distinct tracking numbers
\* of its rows, rows without tracking number not at all, and leaves each of
\* them on the order of the last row that carries it.
C20_OneShipmentPerTrackingNumber ==
    [][/\ \A i, j \in 1..Len(shipments') :
             shipments'[i]["tracking_number"] = shipments'[j]["tracking_number"] => i = j
       /\ \A i \in 1..Len(shipments') : Truthy(shipments'[i]["tracking_number"])
       /\ lastOp'.op = "upsert_shipment_from_feed" =>
             LET record == lastOp'.arg.record
                 tracking_number == Get(record, "tracking_number")
                 existing == FetchOne(shipments, "tracking_number", tracking_number)
             IN /\ ~Truthy(tracking_number) =>
                       /\ lastOp'.result = "None"
                       /\ shipments' = shipments
                /\ lastOp'.result \in {"True", "False"} =>
                       /\ lastOp'.result = "False" <=> ~IsNoRow(existing)
                       /\ Len(shipments') = Len(shipments)
                                            + (IF IsNoRow(existing) THEN 1 ELSE 0)
                       /\ \A i \in 1..Len(shipments) :
                             IF shipments[i]["tracking_number"] = tracking_number
                             THEN /\ shipments'[i]["id"] = shipments[i]["id"]
                                  /\ shipments'[i]["tracking_number"] = tracking_number
                                  /\ \A c \in ShipmentFeedColumns :
                                        shipments'[i][c] = record[c]
                             ELSE shipments'[i] = shipments[i]
                       /\ \E i \in 1..Len(shipments') :
                             /\ shipments'[i]["tracking_number"] = tracking_number
                             /\ \A c \in ShipmentFeedColumns :
                                   shipments'[i][c] = record[c]
       /\ (lastOp'.op = "import_orders_from_csv" /\ lastOp'.result.raised = "no") =>
             LET rows == OrderFiles[lastOp'.arg.file]
             IN /\ lastOp'.result.summary.shipments_upserted
                      = Cardinality(FileTrackingNumbers(rows))
                /\ Len(shipments') = Len(shipments)
                      + Cardinality(FileTrackingNumbers(rows)
                                    \ {shipments[i]["tracking_number"] : i \in 1..Len(shipments)})
                /\ \A t \in FileTrackingNumbers(rows) :
                      \E i \in 1..Len(shipments') :
                         /\ shipments'[i]["tracking_number"] = t
                         /\ shipments'[i]["order_number"]
                               = StrStrip(rows[LastRowWithTracking(rows, t)]["order_number"])]_vars

\* tracking number Z, stored for order A with service, label cost and ship
\* date, has been upserted again with order C and nothing else: the one
\* row of Z now holds order C and nulls
C20_Witness ==
    /\ lastOp.op = "upsert_shipment_from_feed"
    /\ lastOp.result = "False"
    /\ lastOp.arg.record = ShipRecord(<<"C">>, None, <<"Z">>, None, None)
    /\ Len(shipments) = 2
    /\ \E i \in 1..2 :
          /\ shipments[i]["tracking_number"] = <<"Z">>
          /\ shipments[i]["order_number"] = <<"C">>
          /\ shipments[i]["label_cost"] = None

\* C21: the Edit Log is append-only: at every step of feed upserts and user
\* updates the edit_log before the step is a prefix of the edit_log after
\* it, so no entry is changed or removed.
C21_EditLogAppendOnly ==
    [][/\ Len(edit_log) <= Len(edit_log')
       /\ SubSeq(edit_log', 1, Len(edit_log)) = edit_log]_vars

\* a user update of an order line has added the second entry to a log
\* whose first entry is of an inventory item
C21_Witness ==
    /\ lastOp.op = "update_sales_order_item_user_fields"
    /\ lastOp.result = "True"
    /\ Len(edit_log) = 2
    /\ edit_log[1]["entity_type"] = InventoryItemEntity
    /\ edit_log[2]["entity_type"] # InventoryItemEntity

\* the scalar order fields the rows of the files carry
ScalarOrderFields ==
    {"sales_record_number", "buyer_name", "status", "order_total",
     "ordered_at", "paid_at", "shipped_on_date"}

\* the rows of an order whose cell for a field holds more than blanks
RowsWithValue(rows, order_number, field) ==
    {r \in OrderRows(rows, order_number) :
        field \in DOMAIN rows[r] /\ ~BlankCell(rows[r][field])}

\* the value of a field taken from the last row of the order that has one
LastRowValue(rows, order_number, field) ==
    LET rs   == RowsWithValue(rows, order_number, field)
        last == CHOOSE r \in rs : \A q \in rs : q <= r
    IN  IF rs = {} THEN None
        ELSE IF field = "order_total" THEN _parse_decimal(rows[last][field])
        ELSE IF field \in {"ordered_at", "paid_at", "shipped_on_date"}
        THEN _parse_datetime(rows[last][field])
        ELSE StrStrip(rows[last][field])

\* C22: after an orders import that returned, every scalar field of every
\* order of the file holds the value of the last row of that order whose
\* cell for the field is neither empty nor blank (null when there is no
\* such row): an empty or blank cell never replaces an earlier value.
C22_LastNonEmptyWins ==
    [][(lastOp'.op = "import_orders_from_csv" /\ lastOp'.result.raised = "no")
       => LET rows == OrderFiles[lastOp'.arg.file]
          IN \A order_number \in FileOrderNumbers(rows) :
                \A field \in ScalarOrderFields :
                   get_sales_order_v2(sales_orders', order_number)[field]
                      = LastRowValue(rows, order_number, field)]_vars

\* a row without a non-blank item number or title
LacksRequired(row) ==
    \E field \in {"item_number", "title"} :
        field \notin DOMAIN row \/ BlankCell(row[field])

\* the upserts of the rows k.. of a file that are neither lacking a required
\* field nor failing, one after the other
RECURSIVE UpsertKeptRows(_, _, _, _, _)
UpsertKeptRows(items, rows, k, failing, timestamp) ==
    IF k > Len(rows) THEN items
    ELSE UpsertKeptRows(
             IF LacksRequired(rows[k]) \/ k \in failing THEN items
             ELSE upsert_inventory_item_from_feed(items, InventoryRecord(rows[k]),
                                                  timestamp).items,
             rows, k + 1, failing, timestamp)

\* the warnings of a kind that name a row
WarningsOf(warnings, row, kind) ==
    Cardinality({w \in 1..Len(warnings) :
                    warnings[w]["row"] = row /\ warnings[w]["kind"] = kind})

\* C23: an inventory import that returns has read every data row; a row
\* lacking a non-blank item number or title is counted in skipped with one
\* warning naming it, a row whose upsert raises is counted in skipped with
\* one warning naming it, every other row is counted in upserts, so
\* rows_read = upserts + skipped; and the table is what the upserts of the
\* other rows alone leave (last_sync_at aside): skipped rows write nothing
\* and the rows after them are processed.
C23_SkippedRowsDoNotStopImport ==
    [][(lastOp'.op = "import_inventory_from_csv" /\ lastOp'.result.raised = "no")
       => LET rows    == InventoryDataRows(InventoryFileLayout[lastOp'.arg.file],
                                           InventoryFiles[lastOp'.arg.file])
              failing == lastOp'.arg.failing
              summary == lastOp'.result.summary
              lacking == {r \in 1..Len(rows) : LacksRequired(rows[r])}
          IN /\ summary.rows_read = Len(rows)
             /\ summary.rows_read = summary.upserts + summary.skipped
             /\ summary.skipped = Cardinality(lacking \cup failing)
             /\ \A r \in 1..Len(rows) :
                   /\ WarningsOf(summary.warnings, r, "missing required fields")
                         = (IF r \in lacking THEN 1 ELSE 0)
                   /\ WarningsOf(summary.warnings, r, "failed to upsert")
                         = (IF r \in failing \ lacking THEN 1 ELSE 0)
             /\ \E timestamp \in Timestamps :
                   WithoutSync(inventory_items')
                      = WithoutSync(UpsertKeptRows(inventory_items, rows, 1,
                                                   failing, timestamp))]_vars

\* the two-row file of item 1 has been imported while the upsert of its
\* first row raised: one row skipped with a warning, the second row
\* upserted, over a table that held item 2
C23_Witness ==
    /\ lastOp.op = "import_inventory_from_csv"
    /\ lastOp.arg.file = 1
    /\ lastOp.arg.failing = {1}
    /\ lastOp.result.summary.upserts = 1
    /\ lastOp.result.summary.skipped = 1
    /\ Len(inventory_items) = 2
    /\ inventory_items[1]["item_number"] = <<"2">>
    /\ inventory_items[2]["title"] = <<"G">>

\* the fields of inventory_items the feed owns
FeedOwnedFields ==
    {"title", "current_price", "available_quantity", "condition",
     "listing_site", "start_date", "end_date"}

\* the feed-owned fields the upsert trims
TrimmedFeedFields == {"condition", "listing_site", "start_date", "end_date"}

\* a record's value for a field, null when the record lacks the field or
\* holds nothing but blanks for it
ValueOrNull(record, field) ==
    IF Get(record, field) = None THEN None
    ELSE IF IsStr(record[field]) /\ StrStrip(record[field]) = <<>> THEN None
    ELSE IF IsStr(record[field]) THEN StrStrip(record[field])
    ELSE record[field]

\* an upsert_inventory_item_from_feed step for an item_number that was stored
UpsertOfStoredItem ==
    /\ lastOp'.op = "upsert_inventory_item_from_feed"
    /\ Truthy(lastOp'.arg.item_number)
    /\ ~IsNoRow(get_inventory_item_v2(inventory_items, lastOp'.arg.item_number))

\* C24 as stated: an upsert for a stored item_number leaves every feed-owned
\* field of the row at the record's value, null when the record's value is
\* absent or blank, whatever the row held.
C24_FeedFieldsReplaced ==
    [][UpsertOfStoredItem =>
          \A field \in FeedOwnedFields :
             get_inventory_item_v2(inventory_items', lastOp'.arg.item_number)[field]
                = ValueOrNull(lastOp'.arg.record, field)]_vars

\* C24 as amended: an upsert for a stored item_number whose record has a
\* title answers False and leaves title, current_price and
\* available_quantity at the record's values as given (null when absent)
\* and condition, listing_site, start_date and end_date at the record's
\* trimmed values (null when absent or blank), whatever the row held; a
\* record without title raises IntegrityError and changes nothing.
C24_FeedFieldsReplacedWhenTitled ==
    [][UpsertOfStoredItem =>
          LET record == lastOp'.arg.record
              row    == get_inventory_item_v2(inventory_items', lastOp'.arg.item_number)
          IN IF Get(record, "title") = None
             THEN /\ lastOp'.result = "IntegrityError"
                  /\ inventory_items' = inventory_items
             ELSE /\ lastOp'.result = "False"
                  /\ \A field \in FeedOwnedFields \ TrimmedFeedFields :
                        row[field] = Get(record, field)
                  /\ \A field \in TrimmedFeedFields :
                        row[field] = ValueOrNull(record, field)]_vars

\* item 1, imported with condition N, a price, a quantity and two dates,
\* has been upserted with a record of title W and a blank condition: the
\* row holds title W and nulls, and keeps the imported category
C24_Witness ==
    /\ lastOp.op = "upsert_inventory_item_from_feed"
    /\ lastOp.result = "False"
    /\ Get(lastOp.arg.record, "condition") = <<" ">>
    /\ Len(inventory_items) = 1
    /\ inventory_items[1]["title"] = <<"W">>
    /\ inventory_items[1]["condition"] = None
    /\ inventory_items[1]["current_price"] = None
    /\ inventory_items[1]["start_date"] = None
    /\ inventory_items[1]["ebay_category1_name"] = <<"C">>

\* the item_numbers held by an inventory_items table
StoredItemNumbers(items) == {items[i]["item_number"] : i \in 1..Len(items)}

\* the rows of a table are those of an earlier one, except for the rows of
\* the given item_numbers, and every earlier row is still at its place
OtherRowsUnchanged(before, after, item_numbers) ==
    /\ Len(before) <= Len(after)
    /\ \A i \in 1..Len(before) :
          /\ after[i]["item_number"] = before[i]["item_number"]
          /\ before[i]["item_number"] \notin item_numbers => after[i] = before[i]

\* C25: no step of feed imports, feed upserts and user updates removes an
\* inventory item: the stored item_numbers only grow, and a step leaves
\* every row of another item_number as it was, status and last_sync_at
\* included: an upsert or a user update all rows but the one of its
\* item_number, an import all rows of item_numbers its file does not list.
C25_ItemsNeverRemoved ==
    [][/\ StoredItemNumbers(inventory_items) \subseteq StoredItemNumbers(inventory_items')
       /\ lastOp'.op = "upsert_inventory_item_from_feed" =>
             OtherRowsUnchanged(inventory_items, inventory_items',
                                {lastOp'.arg.item_number})
       /\ lastOp'.op = "update_inventory_item_user_fields" =>
             OtherRowsUnchanged(inventory_items, inventory_items',
                                {lastOp'.arg.key})
       /\ lastOp'.op = "import_inventory_from_csv" =>
             OtherRowsUnchanged(inventory_items, inventory_items',
                                FileItemNumbers(InventoryFiles[lastOp'.arg.file]))]_vars

\* item 2 was imported at t1; later item 1 was added and then upserted
\* again at t2: item 2 is still there with its status and its last_sync_at
C25_Witness ==
    /\ lastOp.op = "upsert_inventory_item_from_feed"
    /\ lastOp.result = "False"
    /\ lastOp.arg.item_number = <<"1">>
    /\ Len(inventory_items) = 2
    /\ inventory_items[1]["item_number"] = <<"2">>
    /\ inventory_items[1]["last_sync_at"] = <<"t", "1">>
    /\ inventory_items[1]["status"] = Active
    /\ inventory_items[2]["last_sync_at"] = <<"t", "2">>

\* the stored lines of an order
LinesOfOrder(items, order_number) ==
    {i \in 1..Len(items) : items[i]["order_number"] = order_number}

\* C26: an orders import that returns, run on an empty database, leaves for
\* every order of the file as many sales_order_items rows as the file has
\* rows with that order_number, and reports in order_items_upserted the
\* rows read minus the rows skipped; this for every file, the one whose
\* rows repeat a transaction id and carry a feed id of the form line-NNN
\* included.
C26_OneLinePerRow ==
    [][(/\ lastOp'.op = "import_orders_from_csv"
        /\ lastOp'.result.raised = "no"
        /\ sales_orders = <<>>
        /\ sales_order_items = <<>>
        /\ shipments = <<>>)
       => LET rows == OrderFiles[lastOp'.arg.file]
              summary == lastOp'.result.summary
          IN  /\ \A order_number \in FileOrderNumbers(rows) :
                    Cardinality(LinesOfOrder(sales_order_items', order_number))
                        = Cardinality(OrderRows(rows, order_number))
              /\ summary.order_items_upserted = summary.rows_read - summary.skipped]_vars

\* C27: in every state that orders imports reach from the empty database,
\* interrupted ones included, each sales_order_items row and each shipments
\* row carries the order_number of a stored sales_orders row.
C27_LinesAndShipmentsHaveOrders ==
    /\ \A i \in 1..Len(sales_order_items) :
          sales_order_items[i]["order_number"] \in StoredOrderNumbers(sales_orders)
    /\ \A i \in 1..Len(shipments) :
          shipments[i]["order_number"] \in StoredOrderNumbers(sales_orders)

\* a second completed import of the file with two orders, lines and a shipment
C27_Witness ==
    /\ lastOp.op = "import_orders_from_csv"
    /\ lastOp.arg.file = 2
    /\ lastOp.repeat
    /\ lastOp.result.raised = "no"
    /\ Cardinality(StoredOrderNumbers(sales_orders)) = 2
    /\ Len(sales_order_items) >= 3
    /\ Len(shipments) >= 1

\* C28: no step removes a sales_order_items row or changes the id, the
\* order_number or the transaction_id of one, and ids are never shared.  A
\* feed upsert that returns for a key already stored answers "updated" with
\* the id of the stored line and adds no row.  Every Edit Log row of a
\* sales order item names the id of a stored line.
C28_LineIdStable ==
    [][/\ Len(sales_order_items) <= Len(sales_order_items')
       /\ \A i \in 1..Len(sales_order_items) :
             /\ sales_order_items'[i]["id"] = sales_order_items[i]["id"]
             /\ sales_order_items'[i]["order_number"] = sales_order_items[i]["order_number"]
             /\ sales_order_items'[i]["transaction_id"]
                    = sales_order_items[i]["transaction_id"]
       /\ \A i, j \in 1..Len(sales_order_items') :
             sales_order_items'[i]["id"] = sales_order_items'[j]["id"] => i = j
       /\ (/\ lastOp'.op = "upsert_sales_order_item_from_feed"
           /\ lastOp'.result \in {"True", "False"})
          => LET record == lastOp'.arg.record
                 stored == LinesWithKey(sales_order_items, Get(record, "order_number"),
                                        Get(record, "transaction_id"))
             IN  stored # {} =>
                    /\ lastOp'.result = "False"
                    /\ Len(sales_order_items') = Len(sales_order_items)
                    /\ \E i \in stored : sales_order_items[i]["id"] = lastOp'.arg.id
       /\ \A k \in 1..Len(edit_log') :
             edit_log'[k].entity_type = SalesOrderItemEntity
             => \E i \in 1..Len(sales_order_items') :
                   IdText(sales_order_items'[i]["id"]) = edit_log'[k].entity_pk]_vars

\* a feed upsert updates the line whose id an Edit Log row names, with
\* another line stored beside it
C28_Witness ==
    /\ lastOp.op = "upsert_sales_order_item_from_feed"
    /\ lastOp.result = "False"
    /\ lastOp.arg.id = 1
    /\ Len(sales_order_items) >= 2
    /\ \E k \in 1..Len(edit_log) :
          /\ edit_log[k].entity_type = SalesOrderItemEntity
          /\ edit_log[k].entity_pk = IdText(1)

\* the three fields of an inventory item a user update may write
EditableInventoryFields == {"custom_sku", "ebay_category1_name", "ebay_category1_number"}

\* the fields named by an update map
UpdateKeys(updates) == {updates[i][1] : i \in 1..Len(updates)}

\* the rows before and after a user update differ at most in the given
\* fields of the rows with the key, and only in fields the update names
OnlyFieldsChanged(before, after, key_column, key, fields, updates) ==
    /\ Len(after) = Len(before)
    /\ \A i \in 1..Len(before) :
          /\ DOMAIN after[i] = DOMAIN before[i]
          /\ \A c \in DOMAIN before[i] :
                after[i][c] # before[i][c] =>
                   /\ before[i][key_column] = key
                   /\ c \in fields
                   /\ c \in UpdateKeys(updates)

\* the Edit Log rows a step has appended name only the given fields
OnlyFieldsLogged(log, log2, fields) ==
    /\ Len(log) <= Len(log2)
    /\ SubSeq(log2, 1, Len(log)) = log
    /\ \A n \in (Len(log) + 1)..Len(log2) : log2[n].field \in fields

\* C29: update_inventory_item_user_fields changes nothing but custom_sku,
\* ebay_category1_name and ebay_category1_number of the addressed item, and
\* of these only the ones its update map names; every other column of that
\* item, every other item and the other tables stay as they were, and the
\* Edit Log rows it appends name fields of this set only.  Likewise
\* update_sales_order_item_user_fields changes and logs nothing but
\* custom_sku of the addressed line.
C29_OnlyUserFieldsWritten ==
    [][/\ lastOp'.op = "update_inventory_item_user_fields" =>
             /\ OnlyFieldsChanged(inventory_items, inventory_items', "item_number",
                                  lastOp'.arg.key, EditableInventoryFields,
                                  lastOp'.arg.updates)
             /\ OnlyFieldsLogged(edit_log, edit_log',
                                 EditableInventoryFields \cap UpdateKeys(lastOp'.arg.updates))
             /\ UNCHANGED <<sales_orders, sales_order_items, shipments>>
       /\ lastOp'.op = "update_sales_order_item_user_fields" =>
             /\ OnlyFieldsChanged(sales_order_items, sales_order_items', "id",
                                  lastOp'.arg.key, {"custom_sku"}, lastOp'.arg.updates)
             /\ OnlyFieldsLogged(edit_log, edit_log',
                                 {"custom_sku"} \cap UpdateKeys(lastOp'.arg.updates))
             /\ UNCHANGED <<inventory_items, sales_orders, shipments>>]_vars

\* an update map that names title beside the three fields has changed the
\* SKU of item 1 and has left its title alone
C29_Witness ==
    /\ lastOp.op = "update_inventory_item_user_fields"
    /\ lastOp.result = "True"
    /\ "title" \in UpdateKeys(lastOp.arg.updates)
    /\ \E i \in 1..Len(inventory_items) :
          /\ inventory_items[i]["item_number"] = lastOp.arg.key
          /\ inventory_items[i]["title"] # <<"X">>
          /\ inventory_items[i]["custom_sku"] = <<"F">>

\* a feed value that counts as carrying something: a string that is not blank
FeedValueGiven(v) == IsStr(v) /\ StrStrip(v) # <<>>

\* the user update before this step named the field, the field is stored
\* null, and the Edit Log holds its clearing
ClearedByUser(row, field, entity_type, entity_pk) ==
    /\ lastOp.result = "True"
    /\ field \in UpdateKeys(lastOp.arg.updates)
    /\ row[field] = None
    /\ \E n \in 1..Len(edit_log) :
          /\ edit_log[n].entity_type = entity_type
          /\ edit_log[n].entity_pk = entity_pk
          /\ edit_log[n].field = field
          /\ edit_log[n].old_value # None
          /\ edit_log[n].new_value = None

\* the step is a feed upsert of the inventory item a user update has just
\* cleared a field of: the field takes the feed's value, null when blank
InventoryFieldFedAfterClearing ==
    (/\ lastOp.op = "update_inventory_item_user_fields"
     /\ lastOp'.op = "upsert_inventory_item_from_feed"
     /\ lastOp'.result = "False"
     /\ lastOp'.arg.item_number = lastOp.arg.key)
    => \A i \in 1..Len(inventory_items) : \A f \in EditableInventoryFields :
          (/\ inventory_items[i]["item_number"] = lastOp.arg.key
           /\ ClearedByUser(inventory_items[i], f, InventoryItemEntity, lastOp.arg.key))
          => inventory_items'[i][f]
                = (IF FeedValueGiven(Get(lastOp'.arg.record, f))
                   THEN StrStrip(lastOp'.arg.record[f]) ELSE None)

\* the same for the order line a user update has just cleared the SKU of
LineFieldFedAfterClearing ==
    (/\ lastOp.op = "update_sales_order_item_user_fields"
     /\ lastOp'.op = "upsert_sales_order_item_from_feed"
     /\ lastOp'.result = "False"
     /\ lastOp'.arg.id = lastOp.arg.key)
    => \A i \in 1..Len(sales_order_items) :
          (/\ sales_order_items[i]["id"] = lastOp.arg.key
           /\ ClearedByUser(sales_order_items[i], "custom_sku", SalesOrderItemEntity,
                            IdText(lastOp.arg.key)))
          => sales_order_items'[i]["custom_sku"]
                = (IF FeedValueGiven(Get(lastOp'.arg.record, "custom_sku"))
                   THEN lastOp'.arg.record["custom_sku"] ELSE None)

\* C30: a user update that clears a user-owned field of an inventory item
\* or an order line is logged, and the feed upsert of that item or line
\* that follows stores the feed's value in the field when the record
\* carries one and leaves the field null when the record's value is empty.
C30_ClearedFieldOpenToFeed ==
    [][/\ InventoryFieldFedAfterClearing
       /\ LineFieldFedAfterClearing]_vars

====
